---- MODULE Spec2Model ----
(***************************************************************************)
(* ECS resolver (nxt3d/ecsjs): identifier and key validation, lookup-name  *)
(* construction, and the resolution engine (text-record read raced against *)
(* a timer, value decoding, batch fan-out), the simple wrappers over the   *)
(* engine, and the registry helpers of src/index.ts.                       *)
(*                                                                         *)
(* A JavaScript string is a sequence of one-character strings, so that     *)
(* trim, toLowerCase, split, startsWith, includes and the regular          *)
(* expressions of the source are computed character by character.          *)
(* A control character 0xXX is the token "<XX>".                           *)
(***************************************************************************)
EXTENDS Integers, Sequences, FiniteSets, TLC

\* ------------------------------------------------------------------------
\* State
\* ------------------------------------------------------------------------

VARIABLES
    ecsDomain,   \* this.ecsDomain
    mode,        \* "idle", or which public method the caller invoked
    options,     \* the options of the invocation
    calls,       \* the resolveCredential invocations, by input position
    reads,       \* the getEnsText calls issued so far, in issue order
    completions, \* the positions of the settled calls, in settlement order
    outcome,     \* the promise handed to the caller
    fn,          \* the exported function a caller invoked last ("none" at first)
    args,        \* the arguments of that invocation, under the function's name
    ret,         \* what it returned or threw, under the function's name
    prev,        \* the arguments and outcome of the constructENSName call right
                 \* before the last one, if there was one
    now,         \* Date.now(), in milliseconds
    op,          \* the registry helper a caller invoked, with its arguments
    contractReads, \* the client.readContract calls issued so far
    textReads,   \* the client.getEnsText calls issued by the registry helper
    info,        \* the promise returned by getResolverInfo
    resolution   \* the promise returned by the registry helper resolveCredential

\* the state of the resolver and of its calls
engine == <<ecsDomain, mode, options, calls, reads, completions, outcome>>

\* the last invocation of an exported function
lib == <<fn, args, ret, prev>>

\* the clock and the invocation of a registry helper of src/index.ts
registry == <<now, op, contractReads, textReads, info, resolution>>

vars == <<ecsDomain, mode, options, calls, reads, completions, outcome,
          fn, args, ret, prev,
          now, op, contractReads, textReads, info, resolution>>

\* ------------------------------------------------------------------------
\* Characters and JavaScript string primitives
\* ------------------------------------------------------------------------

LowerSeq == <<"a", "b", "c", "d", "e", "f", "g", "h", "i", "j", "k", "l", "m", "n", "o", "p", "q", "r", "s", "t", "u", "v", "w", "x", "y", "z">>

UpperSeq == <<"A", "B", "C", "D", "E", "F", "G", "H", "I", "J", "K", "L", "M", "N", "O", "P", "Q", "R", "S", "T", "U", "V", "W", "X", "Y", "Z">>

DigitSeq == <<"0", "1", "2", "3", "4", "5", "6", "7", "8", "9">>

SeqRange(s) == {s[i] : i \in 1..Len(s)}

LowerChars == SeqRange(LowerSeq)

UpperChars == SeqRange(UpperSeq)

DigitChars == SeqRange(DigitSeq)

HexChars == DigitChars \cup SeqRange(<<"a", "b", "c", "d", "e", "f", "A", "B", "C", "D", "E", "F">>)

\* /[\x00-\x1F\x7F]/
ControlChars == {"<00>", "<01>", "<02>", "<03>", "<04>", "<05>", "<06>", "<07>",
                 "<08>", "<09>", "<0A>", "<0B>", "<0C>", "<0D>", "<0E>", "<0F>",
                 "<10>", "<11>", "<12>", "<13>", "<14>", "<15>", "<16>", "<17>",
                 "<18>", "<19>", "<1A>", "<1B>", "<1C>", "<1D>", "<1E>", "<1F>",
                 "<7F>"}

\* the characters String.prototype.trim removes (ASCII part of WhiteSpace and
\* LineTerminator)
WhiteSpace == {" ", "<09>", "<0A>", "<0B>", "<0C>", "<0D>"}

IndexIn(s, c) == CHOOSE i \in 1..Len(s) : s[i] = c

ToLowerChar(c) == IF c \in UpperChars THEN LowerSeq[IndexIn(UpperSeq, c)] ELSE c

toLowerCase(s) == [i \in 1..Len(s) |-> ToLowerChar(s[i])]

RECURSIVE TrimStart(_)
TrimStart(s) ==
    IF s = <<>> THEN s
    ELSE IF Head(s) \in WhiteSpace THEN TrimStart(Tail(s)) ELSE s

RECURSIVE TrimEnd(_)
TrimEnd(s) ==
    IF s = <<>> THEN s
    ELSE IF s[Len(s)] \in WhiteSpace THEN TrimEnd(SubSeq(s, 1, Len(s) - 1)) ELSE s

trim(s) == TrimEnd(TrimStart(s))

startsWith(s, p) == Len(s) >= Len(p) /\ SubSeq(s, 1, Len(p)) = p

includes(s, sub) ==
    \E i \in 0..(Len(s) - Len(sub)) : SubSeq(s, i + 1, i + Len(sub)) = sub

slice(s, n) == SubSeq(s, n + 1, Len(s))

\* s.split('.')
RECURSIVE split(_)
split(s) ==
    IF "." \notin SeqRange(s) THEN <<s>>
    ELSE LET i == CHOOSE k \in 1..Len(s) :
                      s[k] = "." /\ \A j \in 1..(k - 1) : s[j] # "."
         IN  <<SubSeq(s, 1, i - 1)>> \o split(SubSeq(s, i + 1, Len(s)))

\* parts.join('.')
RECURSIVE join(_)
join(parts) ==
    IF parts = <<>> THEN <<>>
    ELSE IF Len(parts) = 1 THEN parts[1]
    ELSE parts[1] \o <<".">> \o join(Tail(parts))

\* template-literal formatting of a non-negative integer
RECURSIVE NumToStr(_)
NumToStr(n) ==
    IF n < 10 THEN <<DigitSeq[n + 1]>>
    ELSE NumToStr(n \div 10) \o <<DigitSeq[(n % 10) + 1]>>

\* the value null; no JavaScript string equals it
Null == <<"<null>">>

\* the value undefined: an argument that was not passed
Undefined == <<"<undefined>">>

\* ------------------------------------------------------------------------
\* Errors (src/src/types.ts) and the outcome of a function that may throw
\* ------------------------------------------------------------------------

Ok(v) == [ok |-> TRUE, value |-> v]

Throw(cls, msg) == [ok |-> FALSE, error |-> [cls |-> cls, message |-> msg]]

\* error instanceof Error: everything but a thrown non-Error value
IsError(e) == e.cls # "NonError"

\* ------------------------------------------------------------------------
\* src/src/utils.ts
\* ------------------------------------------------------------------------

DEFAULT_COIN_TYPE == <<"3", "c">>

DEFAULT_ECS_DOMAIN == <<"e", "c", "s", ".", "e", "t", "h">>

\* the {40} of /^[0-9a-fA-F]{40}$/
AddressHexLen == 40

\* faulty variant of normalizeAddress: the letters keep their case
normalizeAddressKeepsCase(address) ==
    LET cleanAddress == IF startsWith(address, <<"0", "x">>) THEN slice(address, 2) ELSE address
    IN  IF ~(Len(cleanAddress) = AddressHexLen /\ SeqRange(cleanAddress) \subseteq HexChars)
        THEN Throw("InvalidIdentifierError", <<"I", "n", "v", "a", "l", "i", "d", " ", "E", "t", "h", "e", "r", "e", "u", "m", " ", "a", "d", "d", "r", "e", "s", "s", " ", "f", "o", "r", "m", "a", "t", ":", " ">> \o address)
        ELSE Ok(cleanAddress)

normalizeAddress(address) ==
    LET cleanAddress == IF startsWith(address, <<"0", "x">>) THEN slice(address, 2) ELSE address
    IN  IF ~(Len(cleanAddress) = AddressHexLen /\ SeqRange(cleanAddress) \subseteq HexChars)
        THEN Throw("InvalidIdentifierError",
                   <<"I", "n", "v", "a", "l", "i", "d", " ", "E", "t", "h", "e", "r", "e", "u", "m", " ", "a", "d", "d", "r", "e", "s", "s", " ", "f", "o", "r", "m", "a", "t", ":", " ">> \o address)
        ELSE Ok(toLowerCase(cleanAddress))

validCoinTypes == <<<<"3", "c">>, <<"0">>, <<"2">>, <<"9", "1">>>>

\* faulty variant of validateCoinType: the tag is compared without regard to
\* the case of its letters
validateCoinTypeIgnoresCase(coinType) ==
    IF toLowerCase(coinType) \notin SeqRange(validCoinTypes)
    THEN Throw("InvalidIdentifierError",
               <<"I", "n", "v", "a", "l", "i", "d", " ", "c", "o", "i", "n", " ", "t", "y", "p", "e", ":", " ">> \o coinType \o <<".", " ", "S", "u", "p", "p", "o", "r", "t", "e", "d", " ", "t", "y", "p", "e", "s", ":", " ", "3", "c", ",", " ", "0", ",", " ", "2", ",", " ", "9", "1">>)
    ELSE Ok(coinType)

validateCoinType(coinType) ==
    IF coinType \notin SeqRange(validCoinTypes)
    THEN Throw("InvalidIdentifierError",
               <<"I", "n", "v", "a", "l", "i", "d", " ", "c", "o", "i", "n", " ", "t", "y", "p", "e", ":", " ">> \o coinType \o <<".", " ", "S", "u", "p", "p", "o", "r", "t", "e", "d", " ", "t", "y", "p", "e", "s", ":", " ", "3", "c", ",", " ", "0", ",", " ", "2", ",", " ", "9", "1">>)
    ELSE Ok(coinType)

\* faulty variant of normalizeName: the pattern is /^[\w.-]+$/, which lets
\* the underscore through
normalizeNameWordChars(name) ==
    IF name = <<>>
    THEN Throw("InvalidIdentifierError", <<"N", "a", "m", "e", " ", "m", "u", "s", "t", " ", "b", "e", " ", "a", " ", "n", "o", "n", "-", "e", "m", "p", "t", "y", " ", "s", "t", "r", "i", "n", "g">>)
    ELSE LET trimmedName == toLowerCase(trim(name))
         IN  IF Len(trimmedName) = 0
             THEN Throw("InvalidIdentifierError", <<"N", "a", "m", "e", " ", "c", "a", "n", "n", "o", "t", " ", "b", "e", " ", "e", "m", "p", "t", "y">>)
             ELSE IF ~(SeqRange(trimmedName) \subseteq
                          (LowerChars \cup DigitChars \cup {".", "-", "_"}))
             THEN Throw("InvalidIdentifierError", <<"I", "n", "v", "a", "l", "i", "d", " ", "n", "a", "m", "e", " ", "f", "o", "r", "m", "a", "t", ":", " ">> \o name)
             ELSE Ok(trimmedName)

normalizeName(name) ==
    IF name = <<>>
    THEN Throw("InvalidIdentifierError", <<"N", "a", "m", "e", " ", "m", "u", "s", "t", " ", "b", "e", " ", "a", " ", "n", "o", "n", "-", "e", "m", "p", "t", "y", " ", "s", "t", "r", "i", "n", "g">>)
    ELSE LET trimmedName == toLowerCase(trim(name))
         IN  IF Len(trimmedName) = 0
             THEN Throw("InvalidIdentifierError", <<"N", "a", "m", "e", " ", "c", "a", "n", "n", "o", "t", " ", "b", "e", " ", "e", "m", "p", "t", "y">>)
             ELSE IF ~(SeqRange(trimmedName) \subseteq
                          (LowerChars \cup DigitChars \cup {".", "-"}))
             THEN Throw("InvalidIdentifierError",
                        <<"I", "n", "v", "a", "l", "i", "d", " ", "n", "a", "m", "e", " ", "f", "o", "r", "m", "a", "t", ":", " ">> \o name \o
                        <<".", " ", "N", "a", "m", "e", "s", " ", "c", "a", "n", " ", "o", "n", "l", "y", " ", "c", "o", "n", "t", "a", "i", "n", " ", "l", "e", "t", "t", "e", "r", "s", ",", " ", "n", "u", "m", "b", "e", "r", "s", ",", " ", "d", "o", "t", "s", ",", " ", "a", "n", "d", " ", "h", "y", "p", "h", "e", "n", "s">>)
             ELSE Ok(trimmedName)

\* identifier.coinType || DEFAULT_COIN_TYPE: an absent or empty coinType is falsy
HasCoinType(identifier) ==
    "coinType" \in DOMAIN identifier /\ identifier.coinType # <<>>

\* faulty variant of constructENSName: the coin type is left out of the name
constructENSNameNoCoinType(identifier, domain) ==
    LET ecs == IF domain = Undefined THEN DEFAULT_ECS_DOMAIN ELSE domain
    IN  IF identifier.type = "name"
        THEN LET n == normalizeName(identifier.name)
             IN  IF ~n.ok THEN n
                 ELSE Ok(n.value \o <<".", "n", "a", "m", "e", ".">> \o ecs)
        ELSE IF identifier.type = "address"
        THEN LET a == normalizeAddress(identifier.address)
                 coinType == IF HasCoinType(identifier) THEN identifier.coinType
                             ELSE DEFAULT_COIN_TYPE
                 c == validateCoinType(coinType)
             IN  IF ~a.ok THEN a
                 ELSE IF ~c.ok THEN c
                 ELSE Ok(a.value \o <<".", "a", "d", "d", "r", ".">> \o ecs)
        ELSE Throw("InvalidIdentifierError", <<"U", "n", "s", "u", "p", "p", "o", "r", "t", "e", "d", " ", "i", "d", "e", "n", "t", "i", "f", "i", "e", "r", " ", "t", "y", "p", "e", ":", " ", "o", "t", "h", "e", "r">>)

\* faulty variant of constructENSName: the domain of the first call is kept
\* in a module-level cache and used by the calls after it
constructENSNameCachesDomain(identifier, domain) ==
    LET cached == IF fn = "constructENSName" THEN args[fn][2] ELSE domain
        ecs == IF cached = Undefined THEN DEFAULT_ECS_DOMAIN ELSE cached
    IN  IF identifier.type = "name"
        THEN LET n == normalizeName(identifier.name)
             IN  IF ~n.ok THEN n
                 ELSE Ok(n.value \o <<".", "n", "a", "m", "e", ".">> \o ecs)
        ELSE IF identifier.type = "address"
        THEN LET a == normalizeAddress(identifier.address)
                 coinType == IF HasCoinType(identifier) THEN identifier.coinType
                             ELSE DEFAULT_COIN_TYPE
                 c == validateCoinType(coinType)
             IN  IF ~a.ok THEN a
                 ELSE IF ~c.ok THEN c
                 ELSE Ok(a.value \o <<".">> \o coinType \o <<".", "a", "d", "d", "r", ".">> \o ecs)
        ELSE Throw("InvalidIdentifierError", <<"U", "n", "s", "u", "p", "p", "o", "r", "t", "e", "d", " ", "i", "d", "e", "n", "t", "i", "f", "i", "e", "r", " ", "t", "y", "p", "e", ":", " ", "o", "t", "h", "e", "r">>)

constructENSName(identifier, domain) ==
    LET ecs == IF domain = Undefined THEN DEFAULT_ECS_DOMAIN ELSE domain
    IN  IF identifier.type = "name"
        THEN LET n == normalizeName(identifier.name)
             IN  IF ~n.ok THEN n
                 ELSE Ok(n.value \o <<".", "n", "a", "m", "e", ".">> \o ecs)
        ELSE IF identifier.type = "address"
        THEN LET a == normalizeAddress(identifier.address)
                 coinType == IF HasCoinType(identifier) THEN identifier.coinType
                             ELSE DEFAULT_COIN_TYPE
                 c == validateCoinType(coinType)
             IN  IF ~a.ok THEN a
                 ELSE IF ~c.ok THEN c
                 ELSE Ok(a.value \o <<".">> \o coinType \o <<".", "a", "d", "d", "r", ".">> \o ecs)
        ELSE Throw("InvalidIdentifierError", <<"U", "n", "s", "u", "p", "p", "o", "r", "t", "e", "d", " ", "i", "d", "e", "n", "t", "i", "f", "i", "e", "r", " ", "t", "y", "p", "e", ":", " ", "o", "t", "h", "e", "r">>)

validateCredentialKey(credentialKey) ==
    IF credentialKey = <<>>
    THEN Throw("InvalidCredentialKeyError", <<"C", "r", "e", "d", "e", "n", "t", "i", "a", "l", " ", "k", "e", "y", " ", "m", "u", "s", "t", " ", "b", "e", " ", "a", " ", "n", "o", "n", "-", "e", "m", "p", "t", "y", " ", "s", "t", "r", "i", "n", "g">>)
    ELSE LET trimmedKey == trim(credentialKey)
             parts == split(trimmedKey)
         IN  IF Len(trimmedKey) = 0
             THEN Throw("InvalidCredentialKeyError", <<"C", "r", "e", "d", "e", "n", "t", "i", "a", "l", " ", "k", "e", "y", " ", "c", "a", "n", "n", "o", "t", " ", "b", "e", " ", "e", "m", "p", "t", "y">>)
             ELSE IF Len(parts) < 4
             THEN Throw("InvalidCredentialKeyError",
                        <<"I", "n", "v", "a", "l", "i", "d", " ", "c", "r", "e", "d", "e", "n", "t", "i", "a", "l", " ", "k", "e", "y", " ", "f", "o", "r", "m", "a", "t", ":", " ">> \o credentialKey \o
                        <<".", " ", "E", "x", "p", "e", "c", "t", "e", "d", " ", "f", "o", "r", "m", "a", "t", ":", " ", "e", "t", "h", ".", "e", "c", "s", ".", "n", "a", "m", "e", "s", "p", "a", "c", "e", ".", "c", "r", "e", "d", "e", "n", "t", "i", "a", "l">>)
             ELSE IF parts[1] # <<"e", "t", "h">> \/ parts[2] # <<"e", "c", "s">>
             THEN Throw("InvalidCredentialKeyError",
                        <<"I", "n", "v", "a", "l", "i", "d", " ", "c", "r", "e", "d", "e", "n", "t", "i", "a", "l", " ", "k", "e", "y", " ", "f", "o", "r", "m", "a", "t", ":", " ">> \o credentialKey \o
                        <<".", " ", "M", "u", "s", "t", " ", "s", "t", "a", "r", "t", " ", "w", "i", "t", "h", " ", "'", "e", "t", "h", ".", "e", "c", "s", "'">>)
             ELSE Ok(TRUE)

\* faulty variant of validateCredentialRequest: the coin type is not looked at
validateCredentialRequestSkipsCoinType(identifier, credentialKey) ==
    LET k == validateCredentialKey(credentialKey)
    IN  IF ~k.ok THEN k
        ELSE IF identifier.type = "name"
        THEN LET n == normalizeName(identifier.name)
             IN  IF ~n.ok THEN n ELSE Ok(TRUE)
        ELSE IF identifier.type = "address"
        THEN LET a == normalizeAddress(identifier.address)
             IN  IF ~a.ok THEN a ELSE Ok(TRUE)
        ELSE Throw("InvalidIdentifierError", <<"U", "n", "s", "u", "p", "p", "o", "r", "t", "e", "d", " ", "i", "d", "e", "n", "t", "i", "f", "i", "e", "r", " ", "t", "y", "p", "e", ":", " ", "o", "t", "h", "e", "r">>)

validateCredentialRequest(identifier, credentialKey) ==
    LET k == validateCredentialKey(credentialKey)
    IN  IF ~k.ok THEN k
        ELSE IF identifier.type = "name"
        THEN LET n == normalizeName(identifier.name)
             IN  IF ~n.ok THEN n ELSE Ok(TRUE)
        ELSE IF identifier.type = "address"
        THEN LET a == normalizeAddress(identifier.address)
             IN  IF ~a.ok THEN a
                 ELSE IF HasCoinType(identifier)
                 THEN LET c == validateCoinType(identifier.coinType)
                      IN  IF ~c.ok THEN c ELSE Ok(TRUE)
                 ELSE Ok(TRUE)
        ELSE Throw("InvalidIdentifierError", <<"U", "n", "s", "u", "p", "p", "o", "r", "t", "e", "d", " ", "i", "d", "e", "n", "t", "i", "f", "i", "e", "r", " ", "t", "y", "p", "e", ":", " ", "o", "t", "h", "e", "r">>)

\* faulty variant of parseCredentialKey: the namespace is the third segment
\* alone
parseCredentialKeyOneSegmentNamespace(credentialKey) ==
    LET v == validateCredentialKey(credentialKey)
        parts == split(credentialKey)
    IN  IF ~v.ok THEN v
        ELSE Ok([key |-> credentialKey,
                 namespace |-> parts[3],
                 name |-> parts[Len(parts)]])

parseCredentialKey(credentialKey) ==
    LET v == validateCredentialKey(credentialKey)
        parts == split(credentialKey)
    IN  IF ~v.ok THEN v
        ELSE Ok([key |-> credentialKey,
                 namespace |-> join(SubSeq(parts, 3, Len(parts) - 1)),
                 name |-> parts[Len(parts)]])

createNameIdentifier(name) ==
    LET n == normalizeName(name)
    IN  IF ~n.ok THEN n
        ELSE Ok([type |-> "name", name |-> n.value])

\* faulty variant of createAddressIdentifier: the address is checked but
\* stored as it was given
createAddressIdentifierStoresRaw(address, coinType) ==
    LET tag == IF coinType = Undefined THEN DEFAULT_COIN_TYPE ELSE coinType
        c == validateCoinType(tag)
        a == normalizeAddress(address)
    IN  IF ~c.ok THEN c
        ELSE IF ~a.ok THEN a
        ELSE Ok([type |-> "address", address |-> address, coinType |-> tag])

\* coinType: CoinType = DEFAULT_COIN_TYPE applies to an argument not passed
createAddressIdentifier(address, coinType) ==
    LET tag == IF coinType = Undefined THEN DEFAULT_COIN_TYPE ELSE coinType
        c == validateCoinType(tag)
        a == normalizeAddress(address)
    IN  IF ~c.ok THEN c
        ELSE IF ~a.ok THEN a
        ELSE Ok([type |-> "address", address |-> a.value, coinType |-> tag])

\* ------------------------------------------------------------------------
\* Value decoding in _resolveCredentialInternal (src/resolver.ts)
\* ------------------------------------------------------------------------

HexUpper == <<"0", "1", "2", "3", "4", "5", "6", "7", "8", "9", "A", "B", "C", "D", "E", "F">>

HexLower == <<"0", "1", "2", "3", "4", "5", "6", "7", "8", "9", "a", "b", "c", "d", "e", "f">>

\* the printable ASCII characters 0x20..0x7E in code order (0x60, the grave
\* accent, as the token "<60>")
Printable == <<" ", "!", "\"", "#", "$", "%", "&", "'", "(", ")", "*", "+", ",", "-", ".", "/",
               "0", "1", "2", "3", "4", "5", "6", "7", "8", "9", ":", ";", "<", "=", ">", "?",
               "@", "A", "B", "C", "D", "E", "F", "G", "H", "I", "J", "K", "L", "M", "N", "O",
               "P", "Q", "R", "S", "T", "U", "V", "W", "X", "Y", "Z", "[", "\\", "]", "^", "_",
               "<60>", "a", "b", "c", "d", "e", "f", "g", "h", "i", "j", "k", "l", "m", "n", "o",
               "p", "q", "r", "s", "t", "u", "v", "w", "x", "y", "z", "{", "|", "}", "~">>

HexVal(c) == IndexIn(HexLower, ToLowerChar(c)) - 1

\* Buffer.from(s, 'hex'): whole pairs of hex digits, cut at the first pair
\* that is not hex; a trailing single digit is dropped; nothing is thrown
RECURSIVE BufferFromHex(_)
BufferFromHex(s) ==
    IF Len(s) < 2 THEN <<>>
    ELSE IF s[1] \in HexChars /\ s[2] \in HexChars
    THEN <<16 * HexVal(s[1]) + HexVal(s[2])>> \o BufferFromHex(slice(s, 2))
    ELSE <<>>

\* buffer.toString('utf8') byte by byte: an ASCII byte is its character, a
\* byte from 0x80 up, standing alone, is no valid UTF-8 sequence and becomes
\* U+FFFD (the hex payloads drawn here hold no multi-byte sequence)
ByteToChar(b) ==
    IF b >= 128 THEN "<FFFD>"
    ELSE IF b < 32 \/ b = 127
    THEN "<" \o HexUpper[(b \div 16) + 1] \o HexUpper[(b % 16) + 1] \o ">"
    ELSE Printable[b - 31]

BufferToString(bytes) == [i \in 1..Len(bytes) |-> ByteToChar(bytes[i])]

\* textRecord.replace(/[\x00-\x1F\x7F]/g, '')
RECURSIVE StripControl(_)
StripControl(s) ==
    IF s = <<>> THEN s
    ELSE IF Head(s) \in ControlChars THEN StripControl(Tail(s))
    ELSE <<Head(s)>> \o StripControl(Tail(s))

\* faulty variant of decodeTextRecord: the "0x" prefix is not removed before
\* the hex decoding
decodeTextRecordKeepsPrefix(textRecord) ==
    IF textRecord = Null \/ textRecord = <<>> THEN Null
    ELSE LET cleanValue == trim(StripControl(textRecord))
         IN  IF cleanValue = <<>> THEN Null
             ELSE IF startsWith(cleanValue, <<"0", "x">>)
             THEN LET decoded == trim(BufferToString(BufferFromHex(cleanValue)))
                  IN  IF decoded = <<>> THEN Null ELSE decoded
             ELSE cleanValue

\* faulty variant of decodeTextRecord: "return decoded" for "return decoded
\* || null", and no test for an empty cleaned value
decodeTextRecordReturnsEmpty(textRecord) ==
    IF textRecord = Null \/ textRecord = <<>> THEN Null
    ELSE LET cleanValue == trim(StripControl(textRecord))
         IN  IF startsWith(cleanValue, <<"0", "x">>)
             THEN trim(BufferToString(BufferFromHex(slice(cleanValue, 2))))
             ELSE cleanValue

\* lines 193-238: the continuation of _resolveCredentialInternal once
\* getEnsText has fulfilled with textRecord; getEnsText is typed string | null,
\* so textRecord is a string or Null and the typeof branch taken is "string".
\* Buffer.from(bytes, 'hex') throws nothing, so the catch of lines 232-235
\* is never entered
decodeTextRecord(textRecord) ==
    IF textRecord = Null \/ textRecord = <<>> THEN Null
    ELSE LET cleanValue == trim(StripControl(textRecord))
         IN  IF cleanValue = <<>> THEN Null
             ELSE IF startsWith(cleanValue, <<"0", "x">>)
             THEN LET bytes == slice(cleanValue, 2)
                      decoded == trim(BufferToString(BufferFromHex(bytes)))
                  IN  IF decoded = <<>> THEN Null ELSE decoded
             ELSE cleanValue

\* faulty variant of internalCatch: only "resolver not found" is recognised
internalCatchResolverOnly(error) ==
    IF IsError(error)
    THEN IF includes(error.message, <<"r", "e", "s", "o", "l", "v", "e", "r", " ", "n", "o", "t", " ", "f", "o", "u", "n", "d">>)
         THEN Ok(Null)
         ELSE Throw("ENSResolutionError",
                    <<"F", "a", "i", "l", "e", "d", " ", "t", "o", " ", "r", "e", "s", "o", "l", "v", "e", " ", "E", "N", "S", " ", "t", "e", "x", "t", " ", "r", "e", "c", "o", "r", "d", ":", " ">> \o error.message)
    ELSE Throw("ENSResolutionError", <<"U", "n", "k", "n", "o", "w", "n", " ", "E", "N", "S", " ", "r", "e", "s", "o", "l", "u", "t", "i", "o", "n", " ", "e", "r", "r", "o", "r">>)

\* faulty variant of internalCatch: the upstream error is rethrown as it came
internalCatchRethrowsRaw(error) ==
    IF IsError(error)
    THEN IF \/ includes(error.message, <<"r", "e", "s", "o", "l", "v", "e", "r", " ", "n", "o", "t", " ", "f", "o", "u", "n", "d">>)
            \/ includes(error.message, <<"n", "a", "m", "e", " ", "n", "o", "t", " ", "f", "o", "u", "n", "d">>)
            \/ includes(error.message, <<"r", "e", "c", "o", "r", "d", " ", "n", "o", "t", " ", "f", "o", "u", "n", "d">>)
         THEN Ok(Null)
         ELSE Throw(error.cls, error.message)
    ELSE Throw("ENSResolutionError", <<"U", "n", "k", "n", "o", "w", "n", " ", "E", "N", "S", " ", "r", "e", "s", "o", "l", "u", "t", "i", "o", "n", " ", "e", "r", "r", "o", "r">>)

\* lines 239-254: the catch block of _resolveCredentialInternal; Ok(Null) is
\* "return null", Throw is the ENSResolutionError it rethrows
internalCatch(error) ==
    IF IsError(error)
    THEN IF \/ includes(error.message, <<"r", "e", "s", "o", "l", "v", "e", "r", " ", "n", "o", "t", " ", "f", "o", "u", "n", "d">>)
            \/ includes(error.message, <<"n", "a", "m", "e", " ", "n", "o", "t", " ", "f", "o", "u", "n", "d">>)
            \/ includes(error.message, <<"r", "e", "c", "o", "r", "d", " ", "n", "o", "t", " ", "f", "o", "u", "n", "d">>)
         THEN Ok(Null)
         ELSE Throw("ENSResolutionError",
                    <<"F", "a", "i", "l", "e", "d", " ", "t", "o", " ", "r", "e", "s", "o", "l", "v", "e", " ", "E", "N", "S", " ", "t", "e", "x", "t", " ", "r", "e", "c", "o", "r", "d", ":", " ">> \o error.message)
    ELSE Throw("ENSResolutionError", <<"U", "n", "k", "n", "o", "w", "n", " ", "E", "N", "S", " ", "r", "e", "s", "o", "l", "u", "t", "i", "o", "n", " ", "e", "r", "r", "o", "r">>)

\* normalize of viem/ens (ENSIP-15) on the ASCII names the library builds:
\* letters are lowercased (the test suite stubs it as name.toLowerCase()); a
\* name with an empty label, which normalizeName lets through, is rejected
\* with an Error by a strict build of the normalisation library and passed
\* through by a lenient one
HasEmptyLabel(name) == name # <<>> /\ <<>> \in SeqRange(split(name))

normalize(name, strict) ==
    IF strict /\ HasEmptyLabel(name)
    THEN Throw("Error", <<"e", "m", "p", "t", "y", " ", "l", "a", "b", "e", "l">>)
    ELSE Ok(toLowerCase(name))

\* ------------------------------------------------------------------------
\* ECSResolver.resolveCredential (src/resolver.ts)
\* ------------------------------------------------------------------------

Pending == [kind |-> "pending"]

Returned(v) == [kind |-> "returned", value |-> v]

Rejected(e) == [kind |-> "rejected", error |-> e]

\* no promise: the function has not been invoked
NotCalled == [kind |-> "notCalled"]

\* faulty variant of successResult: success does not look at the value
successResultAlwaysTrue(value, ensName, credentialKey) ==
    [value |-> value, ensName |-> ensName, credentialKey |-> credentialKey,
     success |-> TRUE]

\* lines 76-81
successResult(value, ensName, credentialKey) ==
    [value |-> value, ensName |-> ensName, credentialKey |-> credentialKey,
     success |-> (value # Null)]

\* lines 82-96: the catch block; constructENSName is evaluated again while
\* the result is built, and only then is throwOnError looked at
catchBlock(identifier, credentialKey, error, throwOnError, domain) ==
    LET n == constructENSName(identifier, domain)
    IN  IF ~n.ok THEN Rejected(n.error)
        ELSE IF throwOnError THEN Rejected(error)
        ELSE Returned([value |-> Null,
                       ensName |-> n.value,
                       credentialKey |-> credentialKey,
                       success |-> FALSE,
                       error |-> IF IsError(error) THEN error.message
                                 ELSE <<"U", "n", "k", "n", "o", "w", "n", " ", "e", "r", "r", "o", "r">>])

\* faulty variant of timeoutError: another wording of the message
timeoutErrorOtherWording(timeout) ==
    [cls |-> "ResolutionTimeoutError",
     message |-> <<"C", "r", "e", "d", "e", "n", "t", "i", "a", "l", " ", "r", "e", "s", "o", "l", "u", "t", "i", "o", "n", " ", "t", "i", "m", "e", "o", "u", "t", " ", "a", "f", "t", "e", "r", " ">> \o NumToStr(timeout) \o <<"m", "s">>]

\* new ResolutionTimeoutError(`Credential resolution timed out after ${timeout}ms`)
timeoutError(timeout) ==
    [cls |-> "ResolutionTimeoutError",
     message |-> <<"C", "r", "e", "d", "e", "n", "t", "i", "a", "l", " ", "r", "e", "s", "o", "l", "u", "t", "i", "o", "n", " ", "t", "i", "m", "e", "d", " ", "o", "u", "t", " ", "a", "f", "t", "e", "r", " ">> \o NumToStr(timeout) \o <<"m", "s">>]

\* what the getEnsText promise of a call has settled with, if it has
NoReply == [kind |-> "none"]

FulfilledWith(textRecord) == [kind |-> "value", value |-> textRecord]

RejectedWith(error) == [kind |-> "error", error |-> error]

\* the state of one resolveCredential invocation: its arguments, the local
\* ensName, the promise it returned, its getEnsText promise ("none" when never
\* issued) with what that settled with, its timer, and which of the two
\* settled the call ("sync" when it settled before the race)
Call(request, ensName, promise, read, timer, winner) ==
    [request |-> request, ensName |-> ensName, outcome |-> promise,
     read |-> read, reply |-> NoReply, timer |-> timer, winner |-> winner]

\* lines 55-74: the synchronous part of resolveCredential, up to the await of
\* Promise.race; a failure before the read is issued settles the call at once
startCall(request, opts, domain, strict) ==
    LET identifier == request.identifier
        credentialKey == request.credentialKey
        v == validateCredentialRequest(identifier, credentialKey)
        n == constructENSName(identifier, domain)
    IN  IF ~v.ok
        THEN Call(request, Null,
                  catchBlock(identifier, credentialKey, v.error, opts.throwOnError, domain),
                  "none", "none", "sync")
        ELSE IF ~n.ok
        THEN Call(request, Null,
                  catchBlock(identifier, credentialKey, n.error, opts.throwOnError, domain),
                  "none", "none", "sync")
        ELSE LET nn == normalize(n.value, strict)
             IN  IF nn.ok
                 THEN Call(request, n.value, Pending, "inflight", "armed", "none")
                 ELSE LET c == internalCatch(nn.error)
                      IN  IF c.ok
                          THEN Call(request, n.value,
                                    Returned(successResult(c.value, n.value, credentialKey)),
                                    "none", "armed", "sync")
                          ELSE Call(request, n.value,
                                    catchBlock(identifier, credentialKey, c.error,
                                               opts.throwOnError, domain),
                                    "none", "armed", "sync")

\* faulty variant of issuedRead: the read is issued a second time (a retry)
issuedReadRetry(i, call, strict) ==
    IF call.read = "inflight"
    THEN LET r == [call |-> i,
                   name |-> normalize(call.ensName, strict).value,
                   key |-> call.request.credentialKey]
         IN  <<r, r>>
    ELSE <<>>

\* faulty variant of issuedRead: the key is trimmed before it is sent
issuedReadTrimmedKey(i, call, strict) ==
    IF call.read = "inflight"
    THEN <<[call |-> i,
            name |-> normalize(call.ensName, strict).value,
            key |-> trim(call.request.credentialKey)]>>
    ELSE <<>>

\* the getEnsText({name, key}) call of line 188, when startCall issues it
issuedRead(i, call, strict) ==
    IF call.read = "inflight"
    THEN <<[call |-> i,
            name |-> normalize(call.ensName, strict).value,
            key |-> call.request.credentialKey]>>
    ELSE <<>>

\* ------------------------------------------------------------------------
\* ECSResolver.resolveCredentialsBatch (src/resolver.ts)
\* ------------------------------------------------------------------------

\* lines 115-118: { ...result, request }
withRequest(result, request) ==
    [f \in (DOMAIN result) \cup {"request"} |->
        IF f = "request" THEN request ELSE result[f]]

\* faulty variant of promiseAll: the results are listed in the order in which
\* the calls settled
promiseAllByCompletion(cs) ==
    IF \E i \in 1..Len(cs) : cs[i].outcome.kind = "rejected"
    THEN LET first == CHOOSE i \in 1..Len(cs) :
                         /\ cs[i].outcome.kind = "rejected"
                         /\ \A j \in 1..(i - 1) : cs[j].outcome.kind # "rejected"
         IN  Rejected(cs[first].outcome.error)
    ELSE IF \A i \in 1..Len(cs) : cs[i].outcome.kind = "returned"
    THEN Returned([k \in 1..Len(cs) |->
                      withRequest(cs[completions'[k]].outcome.value,
                                  cs[completions'[k]].request)])
    ELSE Pending

\* line 121: Promise.all over the per-request promises: the first rejection
\* rejects the batch, otherwise the results are listed by input position.
\* Calls that reject within the same step are all validation failures of the
\* synchronous part, which reject in input order.
promiseAll(cs) ==
    IF \E i \in 1..Len(cs) : cs[i].outcome.kind = "rejected"
    THEN LET first == CHOOSE i \in 1..Len(cs) :
                         /\ cs[i].outcome.kind = "rejected"
                         /\ \A j \in 1..(i - 1) : cs[j].outcome.kind # "rejected"
         IN  Rejected(cs[first].outcome.error)
    ELSE IF \A i \in 1..Len(cs) : cs[i].outcome.kind = "returned"
    THEN Returned([i \in 1..Len(cs) |-> withRequest(cs[i].outcome.value, cs[i].request)])
    ELSE Pending

\* ------------------------------------------------------------------------
\* Inputs
\* ------------------------------------------------------------------------

MaxBatch == 2

ADDR == <<"d", "8", "d", "a", "6", "b", "f", "2", "6", "9", "6", "4", "a", "f", "9", "d", "7", "e", "e", "d", "9", "e", "0", "3", "e", "5", "3", "4", "1", "5", "d", "3", "7", "a", "a", "9", "6", "0", "4", "5">>

ADDR_UPPER == <<"D", "8", "D", "A", "6", "B", "F", "2", "6", "9", "6", "4", "A", "F", "9", "D", "7", "E", "E", "D", "9", "E", "0", "3", "E", "5", "3", "4", "1", "5", "D", "3", "7", "A", "A", "9", "6", "0", "4", "5">>

KEY == <<"e", "t", "h", ".", "e", "c", "s", ".", "e", "t", "h", "s", "t", "a", "r", "s", ".", "s", "t", "a", "r", "s">>

NameId(name) == [type |-> "name", name |-> name]

AddressId(address) == [type |-> "address", address |-> address]

AddressCoinId(address, coinType) ==
    [type |-> "address", address |-> address, coinType |-> coinType]

ValidIdentifiers ==
    { NameId(<<"v", "i", "t", "a", "l", "i", "k", ".", "e", "t", "h">>),
      NameId(<<" ", "V", "i", "t", "a", "l", "i", "k", ".", "E", "T", "H", " ">>),
      NameId(<<"a", ".", ".", "b">>),
      AddressId(<<"0", "x">> \o ADDR),
      AddressCoinId(ADDR, <<"3", "c">>),
      AddressCoinId(<<"0", "x">> \o ADDR_UPPER, <<"0">>),
      AddressCoinId(<<"0", "x">> \o ADDR, <<>>) }

InvalidIdentifiers ==
    { NameId(<<>>),
      NameId(<<" ", " ">>),
      NameId(<<"b", "a", "d", "_", "n", "a", "m", "e">>),
      AddressId(<<"i", "n", "v", "a", "l", "i", "d", "-", "a", "d", "d", "r", "e", "s", "s">>),
      AddressId(<<"0", "x">> \o SubSeq(ADDR, 1, 39)),
      AddressCoinId(<<"0", "x">> \o ADDR, <<"6", "0">>),
      AddressCoinId(<<"0", "x">> \o ADDR, <<"3", "C">>),
      [type |-> "other"] }

Identifiers == ValidIdentifiers \cup InvalidIdentifiers

ValidKeys == { KEY, <<" ", "e", "t", "h", ".", "e", "c", "s", ".", "a", ".", "b", " ">> }

InvalidKeys == { <<>>, <<"i", "n", "v", "a", "l", "i", "d">>, <<"e", "t", "h", ".", "e", "c", "s">>, <<"w", "r", "o", "n", "g", ".", "e", "c", "s", ".", "a", ".", "b">> }

Keys == ValidKeys \cup InvalidKeys

Timeouts == {100, 10000}

DEFAULT_TIMEOUT == 10000

\* config.ecsDomain: absent (Null), or a custom domain
DomainConfigs == { Null, <<"c", "u", "s", "t", "o", "m", ".", "e", "t", "h">>, <<"E", "C", "S", ".", "E", "t", "h">> }

\* what getEnsText can fulfil with
TextRecords ==
    { Null, <<>>, <<"1", "2", "7", "2", "8">>, <<"0", "x", "3", "4", "3", "2">>,
      <<"<00>", " ", "4", "2", "<0A>">>,
      <<"<00>", "<1F>", " ">> }

\* what getEnsText can reject with
UpstreamErrors ==
    { [cls |-> "Error", message |-> <<"r", "e", "s", "o", "l", "v", "e", "r", " ", "n", "o", "t", " ", "f", "o", "u", "n", "d">>],
      [cls |-> "Error", message |-> <<"e", "x", "e", "c", "u", "t", "i", "o", "n", " ", "r", "e", "v", "e", "r", "t", "e", "d", ":", " ", "n", "a", "m", "e", " ", "n", "o", "t", " ", "f", "o", "u", "n", "d">>],
      [cls |-> "Error", message |-> <<"E", "N", "S", " ", "r", "e", "c", "o", "r", "d", " ", "n", "o", "t", " ", "f", "o", "u", "n", "d", ".">>],
      [cls |-> "Error", message |-> <<"N", "e", "t", "w", "o", "r", "k", " ", "e", "r", "r", "o", "r">>],
      [cls |-> "Error", message |-> <<"R", "e", "s", "o", "l", "v", "e", "r", " ", "N", "o", "t", " ", "F", "o", "u", "n", "d">>],
      [cls |-> "NonError", message |-> <<>>] }

Request(identifier, credentialKey) ==
    [identifier |-> identifier, credentialKey |-> credentialKey]

BatchRequests ==
    { Request(NameId(<<"v", "i", "t", "a", "l", "i", "k", ".", "e", "t", "h">>), KEY),
      Request(AddressId(<<"0", "x">> \o ADDR), KEY),
      Request(NameId(<<"b", "a", "d", "_", "n", "a", "m", "e">>), KEY),
      Request(NameId(<<"v", "i", "t", "a", "l", "i", "k", ".", "e", "t", "h">>), <<"i", "n", "v", "a", "l", "i", "d">>) }

BatchTextRecords == { <<"1", "0", "0">>, <<"2", "0", "0">> }

BatchUpstreamErrors == { [cls |-> "Error", message |-> <<"N", "e", "t", "w", "o", "r", "k", " ", "e", "r", "r", "o", "r">>] }

BatchLists == UNION { [1..n -> BatchRequests] : n \in 0..MaxBatch }

\* ------------------------------------------------------------------------
\* Initial state
\* ------------------------------------------------------------------------

\* constructor, line 40: config.ecsDomain || DEFAULT_ECS_DOMAIN
Init ==
    /\ \E cfg \in DomainConfigs :
          ecsDomain = IF cfg = Null THEN DEFAULT_ECS_DOMAIN ELSE cfg
    /\ mode = "idle"
    /\ options = [timeout |-> DEFAULT_TIMEOUT, throwOnError |-> FALSE]
    /\ calls = <<>>
    /\ reads = <<>>
    /\ completions = <<>>
    /\ outcome = Pending
    /\ fn = "none"
    /\ args = [none |-> <<>>]
    /\ ret = [none |-> Null]
    /\ prev = <<>>
    /\ now = 0
    /\ op = [fn |-> "none"]
    /\ contractReads = <<>>
    /\ textReads = <<>>
    /\ info = NotCalled
    /\ resolution = NotCalled

\* ------------------------------------------------------------------------
\* Operations
\* ------------------------------------------------------------------------

\* the settlement order after a step: the calls that settled in the step
\* follow, by position, those settled before
RECURSIVE settledFrom(_, _, _)
settledFrom(done, cs, i) ==
    IF i > Len(cs) THEN done
    ELSE IF cs[i].outcome.kind # "pending" /\ i \notin SeqRange(done)
    THEN settledFrom(Append(done, i), cs, i + 1)
    ELSE settledFrom(done, cs, i + 1)

settledNow(done, cs) == settledFrom(done, cs, 1)

\* a caller invokes resolveCredential(identifier, credentialKey, options)
ResolveCredential ==
    /\ mode = "idle"
    /\ \E identifier \in Identifiers, credentialKey \in Keys,
          timeout \in Timeouts, throwOnError \in BOOLEAN, strict \in BOOLEAN :
          LET opts == [timeout |-> timeout, throwOnError |-> throwOnError]
              call == startCall(Request(identifier, credentialKey), opts, ecsDomain, strict)
          IN  /\ mode' = "single"
              /\ options' = opts
              /\ calls' = <<call>>
              /\ reads' = issuedRead(1, call, strict)
              /\ completions' = settledNow(<<>>, <<call>>)
              /\ outcome' = call.outcome
    /\ UNCHANGED <<ecsDomain, lib, registry>>

RECURSIVE Flatten(_)
Flatten(ss) == IF ss = <<>> THEN <<>> ELSE Head(ss) \o Flatten(Tail(ss))

\* a caller invokes resolveCredentialsBatch(requests, options); requests.map
\* runs the synchronous part of every resolveCredential in input order
ResolveCredentialsBatch ==
    /\ mode = "idle"
    /\ \E requests \in BatchLists, throwOnError \in BOOLEAN, strict \in BOOLEAN :
          LET opts == [timeout |-> DEFAULT_TIMEOUT, throwOnError |-> throwOnError]
              cs == [i \in 1..Len(requests) |->
                        startCall(requests[i], opts, ecsDomain, strict)]
          IN  /\ mode' = "batch"
              /\ options' = opts
              /\ calls' = cs
              /\ reads' = Flatten([i \in 1..Len(requests) |-> issuedRead(i, cs[i], strict)])
              /\ completions' = settledNow(<<>>, cs)
              /\ outcome' = promiseAll(cs)
    /\ UNCHANGED <<ecsDomain, lib, registry>>

\* the methods that fan out over a list of requests
BatchModes == {"batch", "resolveBatch", "resolveAddressBatch"}

\* faulty variant of simpleValue: the value is returned whether or not the
\* resolution succeeded
simpleValueIgnoresSuccess(result) == result.value

\* ecs-resolver.ts lines 76, 81, 101, 111: result.success ? result.value : null
simpleValue(result) == IF result.success THEN result.value ELSE Null

\* ecs-resolver.ts lines 74-82: the promise of resolve and resolveAddress,
\* given that of the resolveCredential call they await
simple(promise) ==
    IF promise.kind = "returned" THEN Returned(simpleValue(promise.value))
    ELSE promise

\* ecs-resolver.ts lines 100-101 and 110-111: the promise of resolveBatch and
\* resolveAddressBatch, given that of resolveCredentialsBatch
simpleBatch(promise) ==
    IF promise.kind = "returned"
    THEN Returned([i \in 1..Len(promise.value) |-> simpleValue(promise.value[i])])
    ELSE promise

\* the promise handed to the caller after call i changed
settle(cs) ==
    IF outcome.kind # "pending" THEN outcome
    ELSE IF mode = "single" THEN cs[1].outcome
    ELSE IF mode = "batch" THEN promiseAll(cs)
    ELSE IF mode \in {"resolve", "resolveAddress"} THEN simple(cs[1].outcome)
    ELSE simpleBatch(promiseAll(cs))

\* lines 193-238 then 76-81: the read of call i fulfils with textRecord
onFulfilled(call, textRecord) ==
    IF call.outcome.kind # "pending"
    THEN [call EXCEPT !.read = "settled", !.reply = FulfilledWith(textRecord)]
    ELSE [call EXCEPT !.read = "settled",
                      !.reply = FulfilledWith(textRecord),
                      !.winner = "read",
                      !.outcome = Returned(successResult(decodeTextRecord(textRecord),
                                                         call.ensName,
                                                         call.request.credentialKey))]

GetEnsTextFulfils(i) ==
    /\ i \in 1..Len(calls)
    /\ calls[i].read = "inflight"
    /\ \E textRecord \in (IF mode \in BatchModes THEN BatchTextRecords ELSE TextRecords) :
          LET cs == [calls EXCEPT ![i] = onFulfilled(calls[i], textRecord)]
          IN  /\ calls' = cs
              /\ completions' = settledNow(completions, cs)
              /\ outcome' = settle(cs)
    /\ UNCHANGED <<ecsDomain, mode, options, reads, lib, registry>>

\* lines 239-254 then 76-96: the read of call i rejects with error
onRejected(call, error, throwOnError, domain) ==
    IF call.outcome.kind # "pending"
    THEN [call EXCEPT !.read = "settled", !.reply = RejectedWith(error)]
    ELSE LET c == internalCatch(error)
         IN  [call EXCEPT !.read = "settled",
                          !.reply = RejectedWith(error),
                          !.winner = "read",
                          !.outcome =
                              IF c.ok
                              THEN Returned(successResult(c.value, call.ensName,
                                                          call.request.credentialKey))
                              ELSE catchBlock(call.request.identifier,
                                              call.request.credentialKey,
                                              c.error, throwOnError, domain)]

GetEnsTextRejects(i) ==
    /\ i \in 1..Len(calls)
    /\ calls[i].read = "inflight"
    /\ \E error \in (IF mode \in BatchModes THEN BatchUpstreamErrors ELSE UpstreamErrors) :
          LET cs == [calls EXCEPT ![i] = onRejected(calls[i], error,
                                                    options.throwOnError, ecsDomain)]
          IN  /\ calls' = cs
              /\ completions' = settledNow(completions, cs)
              /\ outcome' = settle(cs)
    /\ UNCHANGED <<ecsDomain, mode, options, reads, lib, registry>>

\* faulty variant of onTimeout: the timer settles the call again when it
\* fires after the read
onTimeoutOverrides(call, opts, domain) ==
    [call EXCEPT !.timer = "fired",
                 !.winner = "timer",
                 !.outcome = catchBlock(call.request.identifier,
                                        call.request.credentialKey,
                                        timeoutError(opts.timeout),
                                        opts.throwOnError, domain)]

\* lines 65-69 then 82-96: the setTimeout callback of call i runs
onTimeout(call, opts, domain) ==
    IF call.outcome.kind # "pending"
    THEN [call EXCEPT !.timer = "fired"]
    ELSE [call EXCEPT !.timer = "fired",
                      !.winner = "timer",
                      !.outcome = catchBlock(call.request.identifier,
                                             call.request.credentialKey,
                                             timeoutError(opts.timeout),
                                             opts.throwOnError, domain)]

TimeoutFires(i) ==
    /\ i \in 1..Len(calls)
    /\ calls[i].timer = "armed"
    /\ LET cs == [calls EXCEPT ![i] = onTimeout(calls[i], options, ecsDomain)]
       IN  /\ calls' = cs
           /\ completions' = settledNow(completions, cs)
           /\ outcome' = settle(cs)
    /\ UNCHANGED <<ecsDomain, mode, options, reads, lib, registry>>

Next ==
    \/ ResolveCredential
    \/ ResolveCredentialsBatch
    \/ \E i \in 1..MaxBatch : GetEnsTextFulfils(i)
    \/ \E i \in 1..MaxBatch : GetEnsTextRejects(i)
    \/ \E i \in 1..MaxBatch : TimeoutFires(i)

Spec == Init /\ [][Next]_vars

\* one resolveCredential invocation on its own
SingleNext ==
    \/ ResolveCredential
    \/ GetEnsTextFulfils(1)
    \/ GetEnsTextRejects(1)
    \/ TimeoutFires(1)

\* setTimeout runs its callback once the delay has elapsed; nothing makes
\* getEnsText settle
LiveSpec == Init /\ [][SingleNext]_vars /\ WF_vars(TimeoutFires(1))

\* ------------------------------------------------------------------------
\* The simple wrappers of createECSResolver (src/ecs-resolver.ts), over
\* resolveNameCredential, resolveAddressCredential and
\* resolveCredentialsBatch (src/resolver.ts)
\* ------------------------------------------------------------------------

\* resolveAddressCredential, lines 147-158: coinType defaults to '3c' when it
\* is not passed
addressIdentifier(address, coinType) ==
    [type |-> "address", address |-> address,
     coinType |-> IF coinType = Undefined THEN <<"3", "c">> ELSE coinType]

\* ecs-resolver.ts lines 105-108: { type: 'address', address, coinType:
\* req.coinType }, where an undefined coinType is an absent one
batchAddressIdentifier(address, coinType) ==
    IF coinType = Undefined THEN [type |-> "address", address |-> address]
    ELSE [type |-> "address", address |-> address, coinType |-> coinType]

\* --- inputs ---

SimpleNames == { <<"v", "i", "t", "a", "l", "i", "k", ".", "e", "t", "h">>, <<" ", "V", "i", "t", "a", "l", "i", "k", ".", "E", "T", "H", " ">>, <<>>, <<"b", "a", "d", "_", "n", "a", "m", "e">> }

SimpleAddresses == { <<"0", "x">> \o ADDR, ADDR_UPPER, <<"i", "n", "v", "a", "l", "i", "d", "-", "a", "d", "d", "r", "e", "s", "s">> }

SimpleCoinTypes == { Undefined, <<>>, <<"3", "c">>, <<"0">>, <<"6", "0">> }

NameRequest(name, credential) == [name |-> name, credential |-> credential]

AddressRequest(address, credential, coinType) ==
    [address |-> address, credential |-> credential, coinType |-> coinType]

SimpleNameRequests ==
    { NameRequest(<<"v", "i", "t", "a", "l", "i", "k", ".", "e", "t", "h">>, KEY),
      NameRequest(<<"b", "a", "d", "_", "n", "a", "m", "e">>, KEY),
      NameRequest(<<"v", "i", "t", "a", "l", "i", "k", ".", "e", "t", "h">>, <<"i", "n", "v", "a", "l", "i", "d">>) }

SimpleAddressRequests ==
    { AddressRequest(<<"0", "x">> \o ADDR, KEY, Undefined),
      AddressRequest(<<"i", "n", "v", "a", "l", "i", "d", "-", "a", "d", "d", "r", "e", "s", "s">>, KEY, Undefined),
      AddressRequest(<<"0", "x">> \o ADDR, KEY, <<"6", "0">>) }

SimpleNameLists == UNION { [1..n -> SimpleNameRequests] : n \in 0..MaxBatch }

SimpleAddressLists == UNION { [1..n -> SimpleAddressRequests] : n \in 0..MaxBatch }

\* the options of a call that passes none (resolver.ts line 55)
DefaultOptions == [timeout |-> DEFAULT_TIMEOUT, throwOnError |-> FALSE]

\* --- operations ---

\* ecs-resolver.ts lines 74-77: resolve(name, credential)
Resolve ==
    /\ mode = "idle"
    /\ \E name \in SimpleNames, credential \in Keys, strict \in BOOLEAN :
          LET call == startCall(Request([type |-> "name", name |-> name], credential),
                                DefaultOptions, ecsDomain, strict)
          IN  /\ mode' = "resolve"
              /\ options' = DefaultOptions
              /\ calls' = <<call>>
              /\ reads' = issuedRead(1, call, strict)
              /\ completions' = settledNow(<<>>, <<call>>)
              /\ outcome' = simple(call.outcome)
    /\ UNCHANGED <<ecsDomain, lib, registry>>

\* ecs-resolver.ts lines 79-82: resolveAddress(address, credential, coinType)
ResolveAddress ==
    /\ mode = "idle"
    /\ \E address \in SimpleAddresses, credential \in Keys,
          coinType \in SimpleCoinTypes, strict \in BOOLEAN :
          LET call == startCall(Request(addressIdentifier(address, coinType), credential),
                                DefaultOptions, ecsDomain, strict)
          IN  /\ mode' = "resolveAddress"
              /\ options' = DefaultOptions
              /\ calls' = <<call>>
              /\ reads' = issuedRead(1, call, strict)
              /\ completions' = settledNow(<<>>, <<call>>)
              /\ outcome' = simple(call.outcome)
    /\ UNCHANGED <<ecsDomain, lib, registry>>

\* ecs-resolver.ts lines 94-102: resolveBatch(requests)
ResolveBatch ==
    /\ mode = "idle"
    /\ \E requests \in SimpleNameLists, strict \in BOOLEAN :
          LET cs == [i \in 1..Len(requests) |->
                        startCall(Request([type |-> "name", name |-> requests[i].name],
                                          requests[i].credential),
                                  DefaultOptions, ecsDomain, strict)]
          IN  /\ mode' = "resolveBatch"
              /\ options' = DefaultOptions
              /\ calls' = cs
              /\ reads' = Flatten([i \in 1..Len(requests) |-> issuedRead(i, cs[i], strict)])
              /\ completions' = settledNow(<<>>, cs)
              /\ outcome' = simpleBatch(promiseAll(cs))
    /\ UNCHANGED <<ecsDomain, lib, registry>>

\* ecs-resolver.ts lines 104-112: resolveAddressBatch(requests)
ResolveAddressBatch ==
    /\ mode = "idle"
    /\ \E requests \in SimpleAddressLists, strict \in BOOLEAN :
          LET cs == [i \in 1..Len(requests) |->
                        startCall(Request(batchAddressIdentifier(requests[i].address,
                                                                 requests[i].coinType),
                                          requests[i].credential),
                                  DefaultOptions, ecsDomain, strict)]
          IN  /\ mode' = "resolveAddressBatch"
              /\ options' = DefaultOptions
              /\ calls' = cs
              /\ reads' = Flatten([i \in 1..Len(requests) |-> issuedRead(i, cs[i], strict)])
              /\ completions' = settledNow(<<>>, cs)
              /\ outcome' = simpleBatch(promiseAll(cs))
    /\ UNCHANGED <<ecsDomain, lib, registry>>

SimpleNext ==
    \/ Resolve
    \/ ResolveAddress
    \/ ResolveBatch
    \/ ResolveAddressBatch
    \/ \E i \in 1..MaxBatch : GetEnsTextFulfils(i)
    \/ \E i \in 1..MaxBatch : GetEnsTextRejects(i)
    \/ \E i \in 1..MaxBatch : TimeoutFires(i)

SimpleSpec == Init /\ [][SimpleNext]_vars

\* ------------------------------------------------------------------------
\* Calls of the exported functions of src/utils.ts, and the value decoding
\* of _resolveCredentialInternal, each on inputs drawn from bounded sets
\* ------------------------------------------------------------------------

\* the strings of at most n characters over an alphabet
Strings(alphabet, n) == UNION { [1..k -> alphabet] : k \in 0..n }

MaxNameLen == 3

NameChars == {"a", "Z", "0", ".", "-", " ", "_"}

NameInputs ==
    Strings(NameChars, MaxNameLen)
        \cup { <<"v", "i", "t", "a", "l", "i", "k", ".", "e", "t", "h">>, <<" ", "V", "i", "t", "a", "l", "i", "k", ".", "E", "T", "H", " ">>, <<"e", "x", "a", "m", "p", "l", "e", ".", "c", "o", "m">>, <<"b", "a", "d", " ", "n", "a", "m", "e", ".", "e", "t", "h">>,
               <<"<0A>", "a", ".", "e", "t", "h", "<09>">>, <<"a", "<0A>">>, <<"a", "<0A>", "b">> }

MaxCoinLen == 2

CoinTypeChars == {"3", "c", "C", "0", "2", "9", "1", "6"}

CoinTypeInputs == Strings(CoinTypeChars, MaxCoinLen)

\* a 40-digit address with letters of both cases
ADDR_MIXED == SubSeq(ADDR, 1, 20) \o SubSeq(ADDR_UPPER, 21, 40)

AddressBodies == {ADDR, ADDR_UPPER, ADDR_MIXED}

AddressProbeChars == {"0", "f", "F", "a", "g", "G", "x", " "}

\* addresses of 0, 1, 39, 40 and 41 characters, with one character replaced
AddressVariants(body) ==
    {body, <<>>, SubSeq(body, 1, 1), SubSeq(body, 1, Len(body) - 1)}
        \cup { [body EXCEPT ![p] = c] : p \in {1, 20, Len(body)}, c \in AddressProbeChars }
        \cup { body \o <<c>> : c \in AddressProbeChars }

AddressPrefixes == { <<>>, <<"0", "x">>, <<"0", "X">> }

AddressInputs ==
    { prefix \o a : prefix \in AddressPrefixes,
                    a \in UNION { AddressVariants(body) : body \in AddressBodies } }

MaxSegments == 5

KeySegments == { <<"e", "t", "h">>, <<"e", "c", "s">>, <<"a">> }

\* whitespace around a key: none, before it, after it
KeyPaddings == { <<<<>>, <<>>>>, <<<<" ">>, <<>>>>, <<<<>>, <<" ">>>> }

KeyInputs ==
    { pad[1] \o join(parts) \o pad[2] :
          pad \in KeyPaddings,
          parts \in UNION { [1..k -> KeySegments] : k \in 1..MaxSegments } }
        \cup Keys
        \cup { <<"e", "t", "h", ".", "e", "c", "s", ".", "n", "a", "m", "e", "s", "p", "a", "c", "e", ".", "s", "u", "b", ".", "c", "r", "e", "d", "e", "n", "t", "i", "a", "l">>, <<"e", "t", "h", ".", "w", "r", "o", "n", "g", ".", "a", ".", "b">>, <<"E", "T", "H", ".", "e", "c", "s", ".", "a", ".", "b">>,
               <<" ">>, <<".", ".", ".">>, <<"e", "t", "h", ".", "e", "c", "s", ".", ".">>, <<"e", "t", "h", ".", "e", "c", "s", ".", "a", ".">>, <<".", "e", "t", "h", ".", "e", "c", "s", ".", "a">>, <<"e", "t", "h", ".", ".", "e", "c", "s", ".", "a", ".", "a">>,
               <<"e", "t", "h", ".", "e", "c", "s", ".", "a", ".", "b", ".", "c">>, <<"<0A>", "e", "t", "h", ".", "e", "c", "s", ".", "a", ".", "b">>, <<"e", "t", "h", ".", "e", "c", "s", ".", "a", ".", " ", "b">> }

\* the second argument of constructENSName: not passed, or a domain
DomainArgs == { Undefined, <<"c", "u", "s", "t", "o", "m", ".", "e", "t", "h">> }

\* the second argument of createAddressIdentifier: not passed, or a tag
CoinTypeArgs == { Undefined, <<>>, <<"3", "c">>, <<"0">>, <<"2">>, <<"9", "1">>, <<"6", "0">>, <<"3", "C">> }

CreateAddressInputs ==
    { prefix \o a : prefix \in AddressPrefixes,
                    a \in {ADDR, ADDR_UPPER, ADDR_MIXED, SubSeq(ADDR, 1, 39),
                           [ADDR EXCEPT ![20] = "g"]} }

MaxPayloadLen == 3

\* the character of an ASCII code, and the code of an ASCII character
CharCode(c) == CHOOSE b \in 0..127 : ByteToChar(b) = c

\* the hex encoding of the UTF-8 bytes of an ASCII string, in the digits given
HexEncode(s, digits) ==
    LET n == Len(s)
    IN  [i \in 1..(2 * n) |->
            LET b == CharCode(s[(i + 1) \div 2])
            IN  IF i % 2 = 1 THEN digits[(b \div 16) + 1] ELSE digits[(b % 16) + 1]]

PayloadChars == {"a", "Z", "0", " ", "~", "<0A>"}

\* the strings a credential provider may have stored hex-encoded
Payloads ==
    Strings(PayloadChars, MaxPayloadLen)
        \cup { <<c>> : c \in SeqRange(Printable) }
        \cup { <<"1", "2", "7", "2", "8">>, <<"h", "e", "l", "l", "o", " ", "w", "o", "r", "l", "d">> }

\* each payload with its text record, "0x" and the hex digits in either case
EncodedPayloads ==
    { [payload |-> s, raw |-> <<"0", "x">> \o HexEncode(s, digits)] :
          s \in Payloads, digits \in {HexLower, HexUpper} }

\* no two of the hex digits among these make the lead byte of a multi-byte
\* UTF-8 sequence
MalformedHexChars == {"a", "b", "0", "4", "1", "z"}

PlainChars == {"<00>", "<7F>", " ", "4", "0", "x"}

\* what getEnsText can fulfil with: nothing, a plain string, or "0x" and a
\* well-formed or malformed hex payload
RawTextRecords ==
    { Null }
        \cup Strings(PlainChars, MaxPayloadLen)
        \cup { e.raw : e \in EncodedPayloads }
        \cup { <<"0", "x">> \o m : m \in Strings(MalformedHexChars, MaxPayloadLen) }
        \cup { <<"0", "x", "a", "b", "c">>, <<"<00>", " ", "0", "x", "a", "b", "c", "<0A>">> , <<"0", "x", "4", "1", "z", "z">>, <<"0", "x", "A", "B", "C">>,
               <<"0", "x", "0", "0", "4", "1">>, <<"0", "x", "6", "8", "6", "5", "6", "c", "6", "c", "6", "f", "0", "0", "0", "0", "0", "0">>, <<"0", "x", "1", "b", "5", "b", "3", "2", "6", "a">> }

\* One call of a function, on its own: the functions keep no state, so that
\* a call is not affected by the calls before it. The arguments and the
\* outcome are filed under the name of the function, their shapes differing
\* from one function to the next.
Tagged(f, v) == [g \in {f} |-> v]

NormalizeAddress ==
    /\ fn = "none"
    /\ \E address \in AddressInputs :
          /\ args' = Tagged("normalizeAddress", <<address>>)
          /\ ret' = Tagged("normalizeAddress", normalizeAddress(address))
    /\ fn' = "normalizeAddress"
    /\ prev' = <<>>
    /\ UNCHANGED <<engine, registry>>

ValidateCoinType ==
    /\ fn = "none"
    /\ \E coinType \in CoinTypeInputs :
          /\ args' = Tagged("validateCoinType", <<coinType>>)
          /\ ret' = Tagged("validateCoinType", validateCoinType(coinType))
    /\ fn' = "validateCoinType"
    /\ prev' = <<>>
    /\ UNCHANGED <<engine, registry>>

NormalizeName ==
    /\ fn = "none"
    /\ \E name \in NameInputs :
          /\ args' = Tagged("normalizeName", <<name>>)
          /\ ret' = Tagged("normalizeName", normalizeName(name))
    /\ fn' = "normalizeName"
    /\ prev' = <<>>
    /\ UNCHANGED <<engine, registry>>

\* the identifiers constructENSName is called with: those of the engine, and
\* names that look like the lookup name of an address or of another name
LookupIdentifiers ==
    Identifiers
        \cup { NameId(ADDR \o <<".", "3", "c", ".", "a", "d", "d", "r">>),
               NameId(ADDR \o <<".", "3", "c">>),
               NameId(<<"v", "i", "t", "a", "l", "i", "k", ".", "e", "t", "h", ".", "n", "a", "m", "e">>),
               NameId(<<"V", "I", "T", "A", "L", "I", "K", ".", "e", "t", "h">>) }

\* the identifiers validateCredentialRequest is called with
RequestIdentifiers ==
    LookupIdentifiers
        \cup { NameId(name) : name \in NameInputs }
        \cup { AddressCoinId(address, coinType) :
                  address \in { <<"0", "x">> \o ADDR, ADDR_UPPER, <<"0", "x">> \o SubSeq(ADDR, 1, 39) },
                  coinType \in CoinTypeInputs \cup { <<>> } }

\* constructENSName, called once or twice in a row; it touches nothing but
\* its arguments: the resolver's state, and with it the reads issued, stay
\* as they are
ConstructENSName ==
    /\ fn \in {"none", "constructENSName"}
    /\ prev = <<>>
    /\ \E identifier \in LookupIdentifiers, domain \in DomainArgs :
          /\ args' = Tagged("constructENSName", <<identifier, domain>>)
          /\ ret' = Tagged("constructENSName", constructENSName(identifier, domain))
    /\ prev' = IF fn = "constructENSName"
               THEN <<[args |-> args[fn], ret |-> ret[fn]]>>
               ELSE <<>>
    /\ fn' = "constructENSName"
    /\ UNCHANGED <<engine, registry>>

ValidateCredentialRequest ==
    /\ fn = "none"
    /\ \E identifier \in RequestIdentifiers, credentialKey \in Keys :
          /\ args' = Tagged("validateCredentialRequest", <<identifier, credentialKey>>)
          /\ ret' = Tagged("validateCredentialRequest",
                           validateCredentialRequest(identifier, credentialKey))
    /\ fn' = "validateCredentialRequest"
    /\ prev' = <<>>
    /\ UNCHANGED <<engine, registry>>

ValidateCredentialKey ==
    /\ fn = "none"
    /\ \E credentialKey \in KeyInputs :
          /\ args' = Tagged("validateCredentialKey", <<credentialKey>>)
          /\ ret' = Tagged("validateCredentialKey", validateCredentialKey(credentialKey))
    /\ fn' = "validateCredentialKey"
    /\ prev' = <<>>
    /\ UNCHANGED <<engine, registry>>

ParseCredentialKey ==
    /\ fn = "none"
    /\ \E credentialKey \in KeyInputs :
          /\ args' = Tagged("parseCredentialKey", <<credentialKey>>)
          /\ ret' = Tagged("parseCredentialKey", parseCredentialKey(credentialKey))
    /\ fn' = "parseCredentialKey"
    /\ prev' = <<>>
    /\ UNCHANGED <<engine, registry>>

CreateNameIdentifier ==
    /\ fn = "none"
    /\ \E name \in NameInputs :
          /\ args' = Tagged("createNameIdentifier", <<name>>)
          /\ ret' = Tagged("createNameIdentifier", createNameIdentifier(name))
    /\ fn' = "createNameIdentifier"
    /\ prev' = <<>>
    /\ UNCHANGED <<engine, registry>>

CreateAddressIdentifier ==
    /\ fn = "none"
    /\ \E address \in CreateAddressInputs, coinType \in CoinTypeArgs :
          /\ args' = Tagged("createAddressIdentifier", <<address, coinType>>)
          /\ ret' = Tagged("createAddressIdentifier", createAddressIdentifier(address, coinType))
    /\ fn' = "createAddressIdentifier"
    /\ prev' = <<>>
    /\ UNCHANGED <<engine, registry>>

\* lines 193-238 on their own: what _resolveCredentialInternal returns once
\* getEnsText has fulfilled with textRecord
DecodeTextRecord ==
    /\ fn = "none"
    /\ \E textRecord \in RawTextRecords :
          /\ args' = Tagged("decodeTextRecord", <<textRecord>>)
          /\ ret' = Tagged("decodeTextRecord", Ok(decodeTextRecord(textRecord)))
    /\ fn' = "decodeTextRecord"
    /\ prev' = <<>>
    /\ UNCHANGED <<engine, registry>>

LibNext ==
    \/ NormalizeAddress
    \/ ValidateCoinType
    \/ NormalizeName
    \/ ConstructENSName
    \/ ValidateCredentialKey
    \/ ValidateCredentialRequest
    \/ ParseCredentialKey
    \/ CreateNameIdentifier
    \/ CreateAddressIdentifier
    \/ DecodeTextRecord

LibSpec == Init /\ [][LibNext]_vars

\* ------------------------------------------------------------------------
\* Registry helpers (src/index.ts)
\* ------------------------------------------------------------------------

ZERO_ADDRESS == <<"0", "x", "0", "0", "0", "0", "0", "0", "0", "0", "0", "0", "0", "0", "0", "0", "0", "0", "0", "0", "0", "0", "0", "0", "0", "0", "0", "0", "0", "0", "0", "0", "0", "0", "0", "0", "0", "0", "0", "0", "0", "0">>

\* lines 19-22: known ECS Registry addresses by chain
ECS_REGISTRY_ADDRESSES ==
    [chainId \in {1, 11155111} |->
        IF chainId = 1 THEN ZERO_ADDRESS
        ELSE <<"0", "x", "b", "0", "9", "C", "1", "4", "9", "6", "6", "4", "7", "7", "3", "b", "F", "A", "8", "8", "B", "7", "2", "F", "A", "4", "1", "4", "3", "7", "A", "d", "A", "D", "c", "B", "8", "b", "F", "5", "B", "4">>]

\* faulty variant of getRegistryAddress: mainnet is taken to be deployed at
\* the Sepolia address
getRegistryAddressMainnetDeployed(chainId) ==
    IF chainId \in DOMAIN ECS_REGISTRY_ADDRESSES
    THEN ECS_REGISTRY_ADDRESSES[11155111]
    ELSE ZERO_ADDRESS

\* lines 193-195: ECS_REGISTRY_ADDRESSES[chainId] || zero address
getRegistryAddress(chainId) ==
    IF chainId \in DOMAIN ECS_REGISTRY_ADDRESSES
    THEN ECS_REGISTRY_ADDRESSES[chainId]
    ELSE ZERO_ADDRESS

\* line 118: client.chain?.id, where undefined and 0 are both falsy (line 120)
NoChainId(client) == "chain" \notin DOMAIN client \/ client.chain.id = 0

\* faulty variant of getResolverInfoStart: the registry is read before the
\* address is looked at
getResolverInfoStartReadsFirst(client, resolverAddress) ==
    IF NoChainId(client)
    THEN [promise |-> Rejected([cls |-> "Error",
                                message |-> <<"C", "l", "i", "e", "n", "t", " ", "c", "h", "a", "i", "n", " ", "I", "D", " ", "n", "o", "t", " ", "a", "v", "a", "i", "l", "a", "b", "l", "e">>]),
          reads |-> <<>>]
    ELSE LET chainId == client.chain.id
             registryAddress == getRegistryAddress(chainId)
             read == [address |-> registryAddress,
                      functionName |-> "getResolverInfo",
                      args |-> <<resolverAddress>>,
                      reply |-> NoReply]
         IN  IF registryAddress = ZERO_ADDRESS
             THEN [promise |-> Rejected([cls |-> "Error",
                                         message |-> <<"E", "C", "S", " ", "R", "e", "g", "i", "s", "t", "r", "y", " ", "n", "o", "t", " ", "d", "e", "p", "l", "o", "y", "e", "d", " ", "o", "n", " ", "c", "h", "a", "i", "n", " ">>
                                                     \o NumToStr(chainId)]),
                   reads |-> <<read>>]
             ELSE [promise |-> Pending, reads |-> <<read>>]

\* lines 118-135: getResolverInfo up to its await: the promise it returns and
\* the readContract calls it has issued
getResolverInfoStart(client, resolverAddress) ==
    IF NoChainId(client)
    THEN [promise |-> Rejected([cls |-> "Error",
                                message |-> <<"C", "l", "i", "e", "n", "t", " ", "c", "h", "a", "i", "n", " ", "I", "D", " ", "n", "o", "t", " ", "a", "v", "a", "i", "l", "a", "b", "l", "e">>]),
          reads |-> <<>>]
    ELSE LET chainId == client.chain.id
             inTable == chainId \in DOMAIN ECS_REGISTRY_ADDRESSES
         IN  IF ~inTable \/ ECS_REGISTRY_ADDRESSES[chainId] = ZERO_ADDRESS
             THEN [promise |-> Rejected([cls |-> "Error",
                                         message |-> <<"E", "C", "S", " ", "R", "e", "g", "i", "s", "t", "r", "y", " ", "n", "o", "t", " ", "d", "e", "p", "l", "o", "y", "e", "d", " ", "o", "n", " ", "c", "h", "a", "i", "n", " ">>
                                                     \o NumToStr(chainId)]),
                   reads |-> <<>>]
             ELSE [promise |-> Pending,
                   reads |-> <<[address |-> ECS_REGISTRY_ADDRESSES[chainId],
                                functionName |-> "getResolverInfo",
                                args |-> <<resolverAddress>>,
                                reply |-> NoReply]>>]

\* faulty variant of resolverInfo: the review is dropped
resolverInfoNoReview(reply) ==
    [label |-> reply[1], resolverUpdated |-> reply[2], review |-> <<>>]

\* lines 130 and 137: const [label, resolverUpdated, review] = ...;
\* return { label, resolverUpdated, review }
resolverInfo(reply) ==
    [label |-> reply[1], resolverUpdated |-> reply[2], review |-> reply[3]]

\* faulty variant of ensNameOf: the label is lower-cased
ensNameOfLowerCased(label) == toLowerCase(label) \o <<".", "e", "c", "s", ".", "e", "t", "h">>

\* line 171: `${label}.ecs.eth`
ensNameOf(label) == label \o <<".", "e", "c", "s", ".", "e", "t", "h">>

\* faulty variant of registryValue: the value goes through the decoding of
\* the resolution engine
registryValueDecoded(value) == decodeTextRecord(value)

\* lines 174-179: const value = await client.getEnsText(...); return value
registryValue(value) == value

\* faulty variant of getResolverAge: a negative age is reported as zero
getResolverAgeClamped(resolverUpdated, dateNow) ==
    IF (dateNow \div 1000) - resolverUpdated < 0 THEN 0
    ELSE (dateNow \div 1000) - resolverUpdated

\* lines 212-214: Math.floor(Date.now() / 1000) - Number(resolverUpdated);
\* Number() is exact on the timestamps of the model (below 2^53)
getResolverAge(resolverUpdated, dateNow) ==
    (dateNow \div 1000) - resolverUpdated

\* --- inputs ---

RESOLVER == <<"0", "x", "9", "7", "7", "3", "3", "9", "7", "b", "d", "9", "3", "6", "6", "D", "8", "0", "d", "A", "E", "7", "0", "8", "C", "A", "4", "C", "4", "4", "1", "3", "A", "b", "f", "8", "8", "B", "3", "D", "A", "a">>

Client(chainId) == [transport |-> "http", chain |-> [id |-> chainId]]

\* the chain ids of the clients: falsy, mainnet, Sepolia, absent from the table
ChainIds == {0, 1, 11155111, 999}

Clients == { [transport |-> "http"] } \cup { Client(c) : c \in ChainIds }

ResolverAddresses == { RESOLVER, ZERO_ADDRESS }

RegistryKeys == { <<"e", "t", "h", ".", "e", "c", "s", ".", "n", "a", "m", "e", "-", "s", "t", "a", "r", "s", ".", "s", "t", "a", "r", "t", "s", ":", "v", "i", "t", "a", "l", "i", "k", ".", "e", "t", "h">>, <<"s", "o", "m", "e", ".", "c", "r", "e", "d", "e", "n", "t", "i", "a", "l", ".", "k", "e", "y">>, <<>> }

\* what readContract can fulfil with: [label, resolverUpdated, review]
RegistryReplies ==
    { <<<<"n", "a", "m", "e", "-", "s", "t", "a", "r", "s">>, 1764948384, <<>>>>,
      <<<<"C", "u", "s", "t", "o", "m", "-", "S", "e", "r", "v", "i", "c", "e">>, 1234567890, <<"v", "e", "r", "i", "f", "i", "e", "d">>>>,
      <<<<>>, 0, <<>>>> }

RegistryErrors ==
    { [cls |-> "Error", message |-> <<"e", "x", "e", "c", "u", "t", "i", "o", "n", " ", "r", "e", "v", "e", "r", "t", "e", "d">>],
      [cls |-> "Error", message |-> <<"N", "e", "t", "w", "o", "r", "k", " ", "e", "r", "r", "o", "r">>] }

\* what getEnsText can fulfil with
RegistryTextRecords ==
    { Null, <<>>, <<"1", "0", "0">>, <<"0", "x", "3", "4", "3", "2">>, <<"<00>", " ", "4", "2", "<0A>">> }

\* the clock stops advancing at MaxClock milliseconds
MaxClock == 2000

ClockSteps == {499, 501}

\* the resolverUpdated timestamps passed to getResolverAge, in seconds
Timestamps == 0..3

\* --- operations ---

\* time passes
Tick ==
    /\ \E ms \in ClockSteps :
          /\ now + ms <= MaxClock
          /\ now' = now + ms
    /\ UNCHANGED <<engine, lib, op, contractReads, textReads, info, resolution>>

GetRegistryAddress ==
    /\ fn = "none"
    /\ op.fn = "none"
    /\ \E chainId \in ChainIds :
          /\ args' = Tagged("getRegistryAddress", <<chainId>>)
          /\ ret' = Tagged("getRegistryAddress", getRegistryAddress(chainId))
    /\ fn' = "getRegistryAddress"
    /\ prev' = <<>>
    /\ UNCHANGED <<engine, registry>>

GetResolverAge ==
    /\ fn = "none"
    /\ op.fn = "none"
    /\ \E resolverUpdated \in Timestamps :
          /\ args' = Tagged("getResolverAge", <<resolverUpdated>>)
          /\ ret' = Tagged("getResolverAge", getResolverAge(resolverUpdated, now))
    /\ fn' = "getResolverAge"
    /\ prev' = <<>>
    /\ UNCHANGED <<engine, registry>>

\* a caller invokes getResolverInfo(client, resolverAddress)
GetResolverInfo ==
    /\ fn = "none"
    /\ op.fn = "none"
    /\ \E client \in Clients, resolverAddress \in ResolverAddresses :
          LET started == getResolverInfoStart(client, resolverAddress)
          IN  /\ op' = [fn |-> "getResolverInfo", client |-> client,
                        resolverAddress |-> resolverAddress]
              /\ contractReads' = contractReads \o started.reads
              /\ info' = started.promise
    /\ UNCHANGED <<engine, lib, now, textReads, resolution>>

\* a caller invokes resolveCredential(client, resolverAddress, credentialKey)
\* of src/index.ts (lines 162-168); a failure of getResolverInfo is not caught
RegistryResolveCredential ==
    /\ fn = "none"
    /\ op.fn = "none"
    /\ \E client \in Clients, resolverAddress \in ResolverAddresses,
          credentialKey \in RegistryKeys :
          LET started == getResolverInfoStart(client, resolverAddress)
          IN  /\ op' = [fn |-> "resolveCredential", client |-> client,
                        resolverAddress |-> resolverAddress,
                        credentialKey |-> credentialKey]
              /\ contractReads' = contractReads \o started.reads
              /\ info' = started.promise
              /\ resolution' = started.promise
    /\ UNCHANGED <<engine, lib, now, textReads>>

\* readContract fulfils: getResolverInfo returns (line 137), and the registry
\* helper resolveCredential goes on to its text-record read (lines 171-177)
ReadContractFulfils ==
    /\ info = Pending
    /\ \E reply \in RegistryReplies :
          /\ contractReads' = [contractReads EXCEPT
                                   ![Len(contractReads)].reply = FulfilledWith(reply)]
          /\ info' = Returned(resolverInfo(reply))
          /\ textReads' =
                IF op.fn = "resolveCredential"
                THEN Append(textReads, [name |-> ensNameOf(resolverInfo(reply).label),
                                        key |-> op.credentialKey,
                                        reply |-> NoReply])
                ELSE textReads
    /\ UNCHANGED <<engine, lib, now, op, resolution>>

\* readContract rejects: so do getResolverInfo and its caller
ReadContractRejects ==
    /\ info = Pending
    /\ \E error \in RegistryErrors :
          /\ contractReads' = [contractReads EXCEPT
                                   ![Len(contractReads)].reply = RejectedWith(error)]
          /\ info' = Rejected(error)
          /\ resolution' = IF op.fn = "resolveCredential" THEN Rejected(error)
                           ELSE resolution
    /\ UNCHANGED <<engine, lib, now, op, textReads>>

\* lines 174-179: the text-record read fulfils and its value is returned
RegistryGetEnsTextFulfils ==
    /\ resolution = Pending
    /\ info.kind = "returned"
    /\ \E value \in RegistryTextRecords :
          /\ textReads' = [textReads EXCEPT
                               ![Len(textReads)].reply = FulfilledWith(value)]
          /\ resolution' = Returned(registryValue(value))
    /\ UNCHANGED <<engine, lib, now, op, contractReads, info>>

\* the text-record read rejects
RegistryGetEnsTextRejects ==
    /\ resolution = Pending
    /\ info.kind = "returned"
    /\ \E error \in RegistryErrors :
          /\ textReads' = [textReads EXCEPT
                               ![Len(textReads)].reply = RejectedWith(error)]
          /\ resolution' = Rejected(error)
    /\ UNCHANGED <<engine, lib, now, op, contractReads, info>>

RegistryNext ==
    \/ Tick
    \/ GetRegistryAddress
    \/ GetResolverAge
    \/ GetResolverInfo
    \/ RegistryResolveCredential
    \/ ReadContractFulfils
    \/ ReadContractRejects
    \/ RegistryGetEnsTextFulfils
    \/ RegistryGetEnsTextRejects

RegistrySpec == Init /\ [][RegistryNext]_vars

\* ------------------------------------------------------------------------
\* Properties
\* ------------------------------------------------------------------------

CallIds == 1..Len(calls)

ValidationFails(i) ==
    ~validateCredentialRequest(calls[i].request.identifier,
                               calls[i].request.credentialKey).ok

InvalidIdentifier(i) == ~constructENSName(calls[i].request.identifier, ecsDomain).ok

AllSettled == \A i \in CallIds : calls[i].outcome.kind # "pending"

ReadsOf(i) == {k \in 1..Len(reads) : reads[k].call = i}

LookupName(i) == constructENSName(calls[i].request.identifier, ecsDomain).value

NotFoundShaped(e) ==
    /\ IsError(e)
    /\ \/ includes(e.message, <<"r", "e", "s", "o", "l", "v", "e", "r", " ", "n", "o", "t", " ", "f", "o", "u", "n", "d">>)
       \/ includes(e.message, <<"n", "a", "m", "e", " ", "n", "o", "t", " ", "f", "o", "u", "n", "d">>)
       \/ includes(e.message, <<"r", "e", "c", "o", "r", "d", " ", "n", "o", "t", " ", "f", "o", "u", "n", "d">>)

FailedResult(o) ==
    /\ o.kind = "returned"
    /\ o.value.success = FALSE
    /\ o.value.value = Null

\* C1: with throwOnError=false, a resolveCredential call whose name or
\* address identifier, or whose key, fails validation does not reject: it
\* returns a result with success=false, value=null and a non-empty error
\* message.
C1_ValidationFailureIsReturned ==
    ( /\ mode = "single"
      /\ ~options.throwOnError
      /\ calls[1].request.identifier.type \in {"name", "address"}
      /\ ValidationFails(1) ) =>
        /\ FailedResult(outcome)
        /\ "error" \in DOMAIN outcome.value
        /\ outcome.value.error # <<>>

\* C2: a batch (default options) in which exactly one request has an invalid
\* identifier does not reject, and once every element has settled it returns
\* one result per request, in input order, the invalid one with success=false.
C2_BatchWithInvalidIdentifier ==
    ( /\ mode = "batch"
      /\ ~options.throwOnError
      /\ Cardinality({i \in CallIds : InvalidIdentifier(i)}) = 1 ) =>
        /\ outcome.kind # "rejected"
        /\ AllSettled =>
              /\ outcome.kind = "returned"
              /\ Len(outcome.value) = Len(calls)
              /\ \A i \in CallIds :
                    /\ outcome.value[i].request = calls[i].request
                    /\ InvalidIdentifier(i) => ~outcome.value[i].success

\* C3: when a batch of valid requests returns, the list has one entry per
\* request, entry i carries request i and the value decided by request i's
\* own read (its decoded reply, or null when that read failed or lost the
\* race), whatever the order in which the reads completed.
C3_BatchResultsInInputOrder ==
    (mode = "batch" /\ outcome.kind = "returned" /\ \A i \in CallIds : ~ValidationFails(i)) =>
        /\ Len(outcome.value) = Len(calls)
        /\ \A i \in CallIds :
              /\ outcome.value[i].request = calls[i].request
              /\ outcome.value[i].value =
                    IF calls[i].winner = "read" /\ calls[i].reply.kind = "value"
                    THEN decodeTextRecord(calls[i].reply.value)
                    ELSE Null

\* two different requests, the second read completing first with another
\* value than the first
C3_Witness ==
    /\ mode = "batch"
    /\ outcome.kind = "returned"
    /\ Len(calls) = 2
    /\ calls[1].request # calls[2].request
    /\ completions = <<2, 1>>
    /\ calls[1].winner = "read" /\ calls[1].reply = FulfilledWith(<<"1", "0", "0">>)
    /\ calls[2].winner = "read" /\ calls[2].reply = FulfilledWith(<<"2", "0", "0">>)

\* C4: in a batch, for every options value, the failure of one element never
\* makes the batch call reject, and once every element has settled the batch
\* has returned one entry per request.
C4_BatchNeverRejects ==
    mode = "batch" =>
        /\ outcome.kind # "rejected"
        /\ AllSettled => (outcome.kind = "returned" /\ Len(outcome.value) = Len(calls))

\* C5 as stated: a call issues no read when validation fails and exactly one
\* when it passes.
C5_ExactlyOneReadWhenValid ==
    \A i \in CallIds :
        Cardinality(ReadsOf(i)) = IF ValidationFails(i) THEN 0 ELSE 1

\* C5: a call issues no read when validation fails and at most one when it
\* passes: exactly one unless the ENS normalisation rejects the lookup name
\* before the read (here: a name with an empty label); a read that failed or
\* timed out is not issued again.
C5_AtMostOneRead ==
    \A i \in CallIds :
        LET n == Cardinality(ReadsOf(i))
        IN  /\ ValidationFails(i) => n = 0
            /\ ~ValidationFails(i) =>
                  /\ n <= 1
                  /\ n = 0 => HasEmptyLabel(calls[i].ensName)

\* a read that timed out and then failed, with no second read issued
C5_Witness ==
    /\ Len(calls) >= 1
    /\ ~ValidationFails(1)
    /\ calls[1].winner = "timer"
    /\ calls[1].reply.kind = "error"
    /\ Cardinality(ReadsOf(1)) = 1

TimedOutResult(o) ==
    /\ FailedResult(o)
    /\ "error" \in DOMAIN o.value
    /\ includes(o.value.error, <<"t", "i", "m", "e", "d", " ", "o", "u", "t">>)

\* C6: a resolveCredential call (throwOnError=false) that awaits the race
\* always settles, and when it is the timer that settles it the result is a
\* failure with value=null whose error contains "timed out".
C6_TimeoutSettlesTheCall ==
    (mode = "single" /\ ~options.throwOnError /\ calls[1].outcome.kind = "pending")
        ~> ( /\ mode = "single"
             /\ calls[1].outcome.kind # "pending"
             /\ calls[1].winner = "timer" => TimedOutResult(outcome) )

\* the timer has fired while the read has not settled
C6_Witness ==
    /\ mode = "single"
    /\ ~options.throwOnError
    /\ calls[1].winner = "timer"
    /\ calls[1].read = "inflight"
    /\ TimedOutResult(outcome)

\* C7: when the read of a call rejects with an Error whose message contains
\* "resolver not found", "name not found" or "record not found", the call
\* returns, whatever throwOnError is, value=null, success=false and no error.
C7_NotFoundIsEmptyResult ==
    \A i \in CallIds :
        ( /\ calls[i].winner = "read"
          /\ calls[i].reply.kind = "error"
          /\ NotFoundShaped(calls[i].reply.error) ) =>
            /\ FailedResult(calls[i].outcome)
            /\ "error" \notin DOMAIN calls[i].outcome.value
            /\ mode = "single" => outcome = calls[i].outcome

C7_Witness ==
    /\ mode = "single"
    /\ options.throwOnError
    /\ calls[1].winner = "read"
    /\ calls[1].reply = RejectedWith([cls |-> "Error",
                                      message |-> <<"e", "x", "e", "c", "u", "t", "i", "o", "n", " ", "r", "e", "v", "e", "r", "t", "e", "d", ":", " ", "n", "a", "m", "e", " ", "n", "o", "t", " ", "f", "o", "u", "n", "d">>])
    /\ FailedResult(outcome)

WrappedMessage(e) ==
    IF IsError(e) THEN <<"F", "a", "i", "l", "e", "d", " ", "t", "o", " ", "r", "e", "s", "o", "l", "v", "e", " ", "E", "N", "S", " ", "t", "e", "x", "t", " ", "r", "e", "c", "o", "r", "d", ":", " ">> \o e.message
    ELSE <<"U", "n", "k", "n", "o", "w", "n", " ", "E", "N", "S", " ", "r", "e", "s", "o", "l", "u", "t", "i", "o", "n", " ", "e", "r", "r", "o", "r">>

\* C8: when the read of a call fails with an error that is not
\* not-found-shaped, the failure is wrapped as an ENSResolutionError: with
\* throwOnError=false the call returns success=false, value=null and the
\* wrapped message as error; with throwOnError=true it rejects with that
\* ENSResolutionError.
C8_OtherErrorsAreWrapped ==
    \A i \in CallIds :
        ( /\ calls[i].winner = "read"
          /\ calls[i].reply.kind = "error"
          /\ ~NotFoundShaped(calls[i].reply.error) ) =>
            LET wrapped == WrappedMessage(calls[i].reply.error)
            IN  IF options.throwOnError
                THEN calls[i].outcome =
                        Rejected([cls |-> "ENSResolutionError", message |-> wrapped])
                ELSE /\ FailedResult(calls[i].outcome)
                     /\ "error" \in DOMAIN calls[i].outcome.value
                     /\ calls[i].outcome.value.error = wrapped

C8_Witness ==
    /\ mode = "single"
    /\ options.throwOnError
    /\ calls[1].reply = RejectedWith([cls |-> "Error", message |-> <<"N", "e", "t", "w", "o", "r", "k", " ", "e", "r", "r", "o", "r">>])
    /\ outcome.kind = "rejected"
    /\ outcome.error.cls = "ENSResolutionError"

WellFormedResult(r) ==
    /\ r.success <=> r.value # Null
    /\ "error" \in DOMAIN r => (~r.success /\ r.value = Null)

\* C9: in every result returned by resolveCredential or
\* resolveCredentialsBatch, success is true exactly when value is non-null,
\* and a result with an error field has success=false and value=null.
C9_SuccessIffValue ==
    /\ \A i \in CallIds :
          calls[i].outcome.kind = "returned" => WellFormedResult(calls[i].outcome.value)
    /\ (mode = "single" /\ outcome.kind = "returned") => WellFormedResult(outcome.value)
    /\ (mode = "batch" /\ outcome.kind = "returned") =>
          \A k \in 1..Len(outcome.value) : WellFormedResult(outcome.value[k])

\* a batch that returned a success, and a failure with an error, side by side
C9_Witness ==
    /\ mode = "batch"
    /\ outcome.kind = "returned"
    /\ Len(outcome.value) = 2
    /\ outcome.value[1].success
    /\ outcome.value[1].value = <<"1", "0", "0">>
    /\ "error" \in DOMAIN outcome.value[2]

Cleaned(textRecord) ==
    IF textRecord = Null THEN <<>> ELSE trim(StripControl(textRecord))

Decoded == fn = "decodeTextRecord"

\* the arguments and the outcome of the last call
Args == args[fn]

Ret == ret[fn]

\* C11: a text record that is "0x" and the hex encoding of a non-empty
\* printable-ASCII string without whitespace at either end decodes to
\* exactly that string
C11_HexRoundTrip ==
    Decoded =>
        \A e \in EncodedPayloads :
            ( /\ Args[1] = e.raw
              /\ e.payload # <<>>
              /\ SeqRange(e.payload) \subseteq SeqRange(Printable)
              /\ trim(e.payload) = e.payload )
            => Ret = Ok(e.payload)

C11_Witness ==
    /\ Decoded
    /\ Args[1] = <<"0", "x", "6", "8", "6", "5", "6", "c", "6", "c", "6", "f", "2", "0", "7", "7", "6", "f", "7", "2", "6", "c", "6", "4">>
    /\ Ret = Ok(<<"h", "e", "l", "l", "o", " ", "w", "o", "r", "l", "d">>)

\* the remainder after "0x" is not a sequence of whole hex pairs
MalformedHex(bytes) ==
    Len(bytes) % 2 = 1 \/ ~(SeqRange(bytes) \subseteq HexChars)

\* C12: a text record whose cleaned form starts with "0x" and goes on with
\* malformed hex (odd length, or a character that is no hex digit) is
\* returned in its cleaned form, prefix included
C12_MalformedHexIsReturnedAsIs ==
    ( /\ Decoded
      /\ startsWith(Cleaned(Args[1]), <<"0", "x">>)
      /\ MalformedHex(slice(Cleaned(Args[1]), 2)) )
    => Ret = Ok(Cleaned(Args[1]))

\* C13: the decoder returns null, and the result built from it has
\* success = false and no error, when the text record is absent or empty,
\* holds only control characters and whitespace, or is "0x" with a payload
\* that is empty once decoded and trimmed
C13_EmptyValuesDecodeToNull ==
    ( /\ Decoded
      /\ \/ Args[1] \in {Null, <<>>}
         \/ SeqRange(Args[1]) \subseteq (ControlChars \cup WhiteSpace)
         \/ \E e \in EncodedPayloads : Args[1] = e.raw /\ trim(e.payload) = <<>>
         \/ /\ startsWith(Cleaned(Args[1]), <<"0", "x">>)
            /\ trim(BufferToString(BufferFromHex(slice(Cleaned(Args[1]), 2)))) = <<>> )
    => /\ Ret = Ok(Null)
       /\ LET result == successResult(Ret.value, <<"v", "i", "t", "a", "l", "i", "k", ".", "e", "t", "h", ".", "n", "a", "m", "e", ".", "e", "c", "s", ".", "e", "t", "h">>, KEY)
          IN  ~result.success /\ "error" \notin DOMAIN result

C13_Witness ==
    /\ Decoded
    /\ Args[1] = <<"0", "x", "2", "0", "0", "A">>
    /\ Ret = Ok(Null)

\* ------------------------------------------------------------------------
\* Properties of the functions of src/utils.ts (LibSpec)
\* ------------------------------------------------------------------------

LowerHexChars == DigitChars \cup {"a", "b", "c", "d", "e", "f"}

NameCharset == LowerChars \cup DigitChars \cup {".", "-"}

CoinTypeAllowList == { <<"3", "c">>, <<"0">>, <<"2">>, <<"9", "1">> }

IsHex40(x) == Len(x) = 40 /\ SeqRange(x) \subseteq HexChars

Fails(r, cls) == ~r.ok /\ r.error.cls = cls

\* C14: a 40-hex-digit address, with or without "0x" before it and in any
\* letter case, normalizes to its 40 digits in lowercase, without prefix;
\* every other input fails with InvalidIdentifierError
C14_NormalizeAddress ==
    fn = "normalizeAddress" =>
        LET address == Args[1]
        IN  IF IsHex40(address)
            THEN /\ Ret = Ok(toLowerCase(address))
                 /\ Len(Ret.value) = 40
                 /\ SeqRange(Ret.value) \subseteq LowerHexChars
            ELSE IF startsWith(address, <<"0", "x">>) /\ IsHex40(slice(address, 2))
            THEN /\ Ret = Ok(toLowerCase(slice(address, 2)))
                 /\ Len(Ret.value) = 40
                 /\ SeqRange(Ret.value) \subseteq LowerHexChars
            ELSE Fails(Ret, "InvalidIdentifierError")

C14_Witness ==
    /\ fn = "normalizeAddress"
    /\ Args[1] = <<"0", "x">> \o ADDR_UPPER
    /\ Ret = Ok(ADDR)

\* C15: normalizeName fails with InvalidIdentifierError for an input that is
\* empty, is whitespace only, or holds, once trimmed and lowercased, a
\* character outside [a-z0-9.-]; for every other input it returns the
\* trimmed, lowercased name
C15_NormalizeName ==
    fn = "normalizeName" =>
        LET name == Args[1]
            clean == toLowerCase(trim(name))
        IN  IF \/ name = <<>>
               \/ SeqRange(name) \subseteq WhiteSpace
               \/ ~(SeqRange(clean) \subseteq NameCharset)
            THEN Fails(Ret, "InvalidIdentifierError")
            ELSE Ret = Ok(clean)

C15_Witness ==
    /\ fn = "normalizeName"
    /\ Args[1] = <<" ", "V", "i", "t", "a", "l", "i", "k", ".", "E", "T", "H", " ">>
    /\ Ret = Ok(<<"v", "i", "t", "a", "l", "i", "k", ".", "e", "t", "h">>)

C17_ValidateCredentialKey ==
    fn = "validateCredentialKey" =>
        LET key == Args[1]
            segments == split(key)
        IN  IF /\ key # <<>>
               /\ Len(segments) >= 4
               /\ segments[1] = <<"e", "t", "h">>
               /\ segments[2] = <<"e", "c", "s">>
            THEN Ret.ok
            ELSE Fails(Ret, "InvalidCredentialKeyError")

\* C18: parseCredentialKey fails with InvalidCredentialKeyError exactly when
\* validateCredentialKey does; otherwise it returns the key as given, its
\* last segment as name and the segments between the second and the last,
\* joined by dots, as namespace: the key reads
\* <first>.<second>.<namespace>.<name>, and the name holds no dot
C18_ParseCredentialKey ==
    fn = "parseCredentialKey" =>
        LET key == Args[1]
        IN  IF ~validateCredentialKey(key).ok
            THEN Fails(Ret, "InvalidCredentialKeyError")
            ELSE /\ Ret.ok
                 /\ DOMAIN Ret.value = {"key", "namespace", "name"}
                 /\ Ret.value.key = key
                 /\ "." \notin SeqRange(Ret.value.name)
                 /\ key = split(key)[1] \o <<".">> \o split(key)[2] \o <<".">>
                            \o Ret.value.namespace \o <<".">> \o Ret.value.name

C18_Witness ==
    /\ fn = "parseCredentialKey"
    /\ Args[1] = <<"e", "t", "h", ".", "e", "c", "s", ".", "a", ".", "b", ".", "c">>
    /\ Ret = Ok([key |-> <<"e", "t", "h", ".", "e", "c", "s", ".", "a", ".", "b", ".", "c">>, namespace |-> <<"a", ".", "b">>, name |-> <<"c">>])

\* the domain a constructENSName call works with
DomainOf(domain) == IF domain = Undefined THEN <<"e", "c", "s", ".", "e", "t", "h">> ELSE domain

\* the coin type of an address identifier, "3c" when it has none
CoinTypeOf(identifier) ==
    IF HasCoinType(identifier) THEN identifier.coinType ELSE <<"3", "c">>

\* C19: constructENSName returns <normalized name>.name.<domain> for a valid
\* name identifier and <normalized address>.<coin type>.addr.<domain> for a
\* valid address identifier, the domain being "ecs.eth" and the coin type
\* "3c" when not given; a second call with the same arguments returns what
\* the first returned, and no call issues a read
C19_ConstructENSName ==
    fn = "constructENSName" =>
        LET identifier == Args[1]
            domain == DomainOf(Args[2])
        IN  /\ (identifier.type = "name" /\ normalizeName(identifier.name).ok)
                => Ret = Ok(normalizeName(identifier.name).value \o <<".", "n", "a", "m", "e", ".">> \o domain)
            /\ ( /\ identifier.type = "address"
                 /\ normalizeAddress(identifier.address).ok
                 /\ CoinTypeOf(identifier) \in CoinTypeAllowList )
                => Ret = Ok(normalizeAddress(identifier.address).value \o <<".">>
                              \o CoinTypeOf(identifier) \o <<".", "a", "d", "d", "r", ".">> \o domain)
            /\ (prev # <<>> /\ prev[1].args = Args) => prev[1].ret = Ret
            /\ reads = <<>>

C19_Witness ==
    /\ fn = "constructENSName"
    /\ prev # <<>>
    /\ prev[1].args = Args
    /\ Args = <<AddressId(<<"0", "x">> \o ADDR), Undefined>>
    /\ Ret = Ok(ADDR \o <<".", "3", "c", ".", "a", "d", "d", "r", ".", "e", "c", "s", ".", "e", "t", "h">>)

\* C20: createNameIdentifier returns a name that is trimmed, lowercase and
\* within [a-z0-9.-]; createAddressIdentifier returns an address of 40
\* lowercase hex digits without prefix and a coin type of the allow-list,
\* "3c" when none was given; constructENSName gives the same lookup name for
\* the identifier returned as for the raw input it was built from
C20_FactoriesNormalize ==
    /\ (fn = "createNameIdentifier" /\ Ret.ok) =>
          LET id == Ret.value
          IN  /\ id.type = "name"
              /\ trim(id.name) = id.name
              /\ toLowerCase(id.name) = id.name
              /\ id.name # <<>>
              /\ SeqRange(id.name) \subseteq NameCharset
              /\ \A domain \in DomainArgs :
                    /\ constructENSName(id, domain).ok
                    /\ constructENSName(id, domain)
                           = constructENSName(NameId(Args[1]), domain)
    /\ (fn = "createAddressIdentifier" /\ Ret.ok) =>
          LET id == Ret.value
              raw == IF Args[2] = Undefined THEN AddressId(Args[1])
                     ELSE AddressCoinId(Args[1], Args[2])
          IN  /\ id.type = "address"
              /\ Len(id.address) = 40
              /\ SeqRange(id.address) \subseteq LowerHexChars
              /\ id.coinType \in CoinTypeAllowList
              /\ Args[2] = Undefined => id.coinType = <<"3", "c">>
              /\ \A domain \in DomainArgs :
                    /\ constructENSName(id, domain).ok
                    /\ constructENSName(id, domain) = constructENSName(raw, domain)

C20_Witness ==
    /\ fn = "createAddressIdentifier"
    /\ Args = <<<<"0", "x">> \o ADDR_UPPER, Undefined>>
    /\ Ret = Ok([type |-> "address", address |-> ADDR, coinType |-> <<"3", "c">>])

\* ------------------------------------------------------------------------
\* Registry helpers
\* ------------------------------------------------------------------------

\* the two configuration errors of getResolverInfo
ConfigurationError(e, client) ==
    /\ e.cls = "Error"
    /\ \/ e.message = <<"C", "l", "i", "e", "n", "t", " ", "c", "h", "a", "i", "n", " ", "I", "D", " ", "n", "o", "t", " ", "a", "v", "a", "i", "l", "a", "b", "l", "e">>
       \/ /\ "chain" \in DOMAIN client
          /\ e.message = <<"E", "C", "S", " ", "R", "e", "g", "i", "s", "t", "r", "y", " ", "n", "o", "t", " ", "d", "e", "p", "l", "o", "y", "e", "d", " ", "o", "n", " ", "c", "h", "a", "i", "n", " ">> \o NumToStr(client.chain.id)

\* the client exposes no chain id, or no registry is known for its chain
Misconfigured(client) ==
    \/ "chain" \notin DOMAIN client
    \/ getRegistryAddress(client.chain.id) = ZERO_ADDRESS

\* C21: getResolverInfo fails with a configuration error, having issued no
\* contract read, exactly when the client exposes no chain id or
\* getRegistryAddress(chainId) is the zero address; otherwise it has issued
\* exactly one readContract, to the registry address of the table and with
\* the resolver address as its only argument, and when that read fulfils it
\* returns the label, resolverUpdated and review of the reply unchanged.
C21_GetResolverInfo ==
    op.fn = "getResolverInfo" =>
        /\ (info.kind = "rejected" /\ ConfigurationError(info.error, op.client))
              <=> Misconfigured(op.client)
        /\ Misconfigured(op.client) => contractReads = <<>>
        /\ ~Misconfigured(op.client) =>
              /\ Len(contractReads) = 1
              /\ contractReads[1].address = getRegistryAddress(op.client.chain.id)
              /\ contractReads[1].address = ECS_REGISTRY_ADDRESSES[op.client.chain.id]
              /\ contractReads[1].functionName = "getResolverInfo"
              /\ contractReads[1].args = <<op.resolverAddress>>
              /\ contractReads[1].reply.kind = "none" <=> info = Pending
              /\ contractReads[1].reply.kind = "value" =>
                    /\ info.kind = "returned"
                    /\ info.value.label = contractReads[1].reply.value[1]
                    /\ info.value.resolverUpdated = contractReads[1].reply.value[2]
                    /\ info.value.review = contractReads[1].reply.value[3]
              /\ contractReads[1].reply.kind = "error" =>
                    info = Rejected(contractReads[1].reply.error)

C21_Witness ==
    /\ op.fn = "getResolverInfo"
    /\ op.client = Client(11155111)
    /\ info = Returned([label |-> <<"C", "u", "s", "t", "o", "m", "-", "S", "e", "r", "v", "i", "c", "e">>, resolverUpdated |-> 1234567890,
                        review |-> <<"v", "e", "r", "i", "f", "i", "e", "d">>])

\* C22: the registry helper resolveCredential issues its text-record read
\* only once getResolverInfo has returned, one read for "<label>.ecs.eth" and
\* the credential key as given; it returns the value of that read unchanged;
\* when getResolverInfo fails there is no text-record read and the caller
\* gets the failure of getResolverInfo.
C22_RegistryResolveCredential ==
    op.fn = "resolveCredential" =>
        /\ info.kind \in {"pending", "rejected"} => textReads = <<>>
        /\ info.kind = "rejected" => resolution = info
        /\ info.kind = "pending" => resolution = Pending
        /\ info.kind = "returned" =>
              /\ Len(textReads) = 1
              /\ textReads[1].name = info.value.label \o <<".", "e", "c", "s", ".", "e", "t", "h">>
              /\ textReads[1].key = op.credentialKey
              /\ textReads[1].reply.kind = "none" <=> resolution = Pending
              /\ textReads[1].reply.kind = "value" =>
                    resolution = Returned(textReads[1].reply.value)
              /\ textReads[1].reply.kind = "error" =>
                    resolution = Rejected(textReads[1].reply.error)

C22_Witness ==
    /\ op.fn = "resolveCredential"
    /\ op.credentialKey = <<"s", "o", "m", "e", ".", "c", "r", "e", "d", "e", "n", "t", "i", "a", "l", ".", "k", "e", "y">>
    /\ info.kind = "returned"
    /\ info.value.label = <<"C", "u", "s", "t", "o", "m", "-", "S", "e", "r", "v", "i", "c", "e">>
    /\ resolution = Returned(<<"<00>", " ", "4", "2", "<0A>">>)

\* C23: a call of getResolverAge returns the current time in whole seconds
\* minus the timestamp, with no clamping: negative exactly when the timestamp
\* is later than the current time in whole seconds, zero when they are equal.
C23_GetResolverAge ==
    [][(fn = "none" /\ fn' = "getResolverAge") =>
          \E seconds \in 0..(MaxClock \div 1000 + 1) :
              /\ seconds * 1000 <= now
              /\ now < (seconds + 1) * 1000
              /\ ret'.getResolverAge = seconds - args'.getResolverAge[1]
              /\ ret'.getResolverAge < 0 <=> args'.getResolverAge[1] > seconds
              /\ ret'.getResolverAge = 0 <=> args'.getResolverAge[1] = seconds]_vars

C23_Witness ==
    /\ fn = "getResolverAge"
    /\ now = 1499
    /\ Args[1] = 3
    /\ Ret = -2

\* ------------------------------------------------------------------------
\* The simple wrappers
\* ------------------------------------------------------------------------

SimpleModes == {"resolve", "resolveAddress", "resolveBatch", "resolveAddressBatch"}

\* what a simple wrapper is to give for call i: the decoded value of the read
\* when the read settled the call with a value, null for every failure
SimpleExpected(i) ==
    IF calls[i].winner = "read" /\ calls[i].reply.kind = "value"
    THEN decodeTextRecord(calls[i].reply.value)
    ELSE Null

\* C24: resolve, resolveAddress, resolveBatch and resolveAddressBatch never
\* reject because a resolution failed: they return null for every failed
\* resolution (invalid name or address, invalid key, not found, timeout,
\* upstream error) and the decoded value otherwise.
C24_SimpleWrappersReturnNull ==
    mode \in SimpleModes =>
        /\ outcome.kind # "rejected"
        /\ outcome.kind = "returned" =>
              IF mode \in BatchModes
              THEN /\ Len(outcome.value) = Len(calls)
                   /\ \A i \in 1..Len(calls) : outcome.value[i] = SimpleExpected(i)
              ELSE outcome.value = SimpleExpected(1)

\* ------------------------------------------------------------------------
\* The race between the read and the timer
\* ------------------------------------------------------------------------

\* what the timer alone makes of call i
TimerOutcome(i) ==
    catchBlock(calls[i].request.identifier, calls[i].request.credentialKey,
               timeoutError(options.timeout), options.throwOnError, ecsDomain)

\* what the settlement of the read alone makes of call i
ReadOutcome(i) ==
    IF calls[i].reply.kind = "value"
    THEN Returned(successResult(decodeTextRecord(calls[i].reply.value),
                                calls[i].ensName, calls[i].request.credentialKey))
    ELSE LET c == internalCatch(calls[i].reply.error)
         IN  IF c.ok
             THEN Returned(successResult(c.value, calls[i].ensName,
                                         calls[i].request.credentialKey))
             ELSE catchBlock(calls[i].request.identifier,
                             calls[i].request.credentialKey,
                             c.error, options.throwOnError, ecsDomain)

\* the first of the two events settled call i, and its outcome is what that
\* event alone makes of it
SettledByFirst(i) ==
    /\ calls[i].winner = "none" <=> calls[i].outcome = Pending
    /\ calls[i].winner = "timer" =>
          /\ calls[i].timer = "fired"
          /\ calls[i].outcome = TimerOutcome(i)
    /\ calls[i].winner = "read" =>
          /\ calls[i].reply.kind # "none"
          /\ calls[i].outcome = ReadOutcome(i)

\* C25: the first of the read and the timer to settle determines the outcome
\* of resolveCredential alone: once the call has settled, the timer firing
\* or the read settling later changes neither the call's outcome nor what the
\* caller was handed, in every interleaving.
C25_FirstSettlementWins ==
    /\ [](\A i \in CallIds : SettledByFirst(i))
    /\ [][ /\ \A i \in CallIds :
                calls[i].outcome # Pending =>
                    /\ i \in 1..Len(calls')
                    /\ calls'[i].outcome = calls[i].outcome
                    /\ calls'[i].winner = calls[i].winner
           /\ outcome # Pending => outcome' = outcome ]_vars

\* the timer settled the call and the read fulfilled afterwards
C25_Witness ==
    /\ mode = "single"
    /\ calls[1].winner = "timer"
    /\ calls[1].timer = "fired"
    /\ calls[1].reply = FulfilledWith(<<"1", "2", "7", "2", "8">>)
    /\ outcome = TimerOutcome(1)
    /\ outcome.kind = "returned"

\* ------------------------------------------------------------------------
\* The pre-flight gate and the lookup name
\* ------------------------------------------------------------------------

\* C26: validateCredentialRequest and constructENSName agree on which
\* identifiers are valid: with a valid credential key, the request is accepted
\* if and only if constructENSName returns a name for the identifier, with
\* the domain passed or not (an address identifier with no coinType or with
\* an empty one included).
C26_GateAgreesWithConstructENSName ==
    (fn = "validateCredentialRequest" /\ validateCredentialKey(Args[2]).ok) =>
        \A domain \in DomainArgs :
            Ret.ok <=> constructENSName(Args[1], domain).ok

C26_Witness ==
    /\ fn = "validateCredentialRequest"
    /\ Args = <<AddressCoinId(<<"0", "x">> \o ADDR, <<>>), KEY>>
    /\ Ret = Ok(TRUE)
    /\ constructENSName(Args[1], Undefined) = Ok(ADDR \o <<".", "3", "c", ".", "a", "d", "d", "r", ".", "e", "c", "s", ".", "e", "t", "h">>)

\* the variant, and the normalized name or the normalized address and
\* effective coin type, of a valid identifier
NormalizedIdentifier(identifier) ==
    IF identifier.type = "name"
    THEN [type |-> "name", name |-> normalizeName(identifier.name).value]
    ELSE [type |-> "address",
          address |-> normalizeAddress(identifier.address).value,
          coinType |-> CoinTypeOf(identifier)]

\* C27: for a fixed domain, two valid identifiers have the same lookup name
\* only if they are of the same variant and have the same normalized name,
\* or the same normalized address and the same effective coin type.
C27_LookupNameIsInjective ==
    ( /\ fn = "constructENSName"
      /\ prev # <<>>
      /\ DomainOf(prev[1].args[2]) = DomainOf(Args[2])
      /\ prev[1].ret.ok
      /\ Ret.ok
      /\ prev[1].ret.value = Ret.value )
        => NormalizedIdentifier(prev[1].args[1]) = NormalizedIdentifier(Args[1])

\* two different spellings of one address with the same effective coin type
C27_Witness ==
    /\ fn = "constructENSName"
    /\ prev # <<>>
    /\ prev[1].args = <<AddressId(<<"0", "x">> \o ADDR), Undefined>>
    /\ Args = <<AddressCoinId(ADDR, <<"3", "c">>), Undefined>>
    /\ prev[1].ret = Ret
    /\ Ret.ok

\* C28: every non-null value the engine returns is free of ASCII control
\* characters (0x00-0x1F and 0x7F), on the plain-text path and on the
\* hex-decoding path alike.
C28_NoControlCharacters ==
    (Decoded /\ Ret.ok /\ Ret.value # Null) =>
        SeqRange(Ret.value) \cap ControlChars = {}

\* C29: for every key that validateCredentialKey accepts, keys with
\* whitespace around them included, parseCredentialKey returns a namespace
\* and a name such that "eth.ecs." + namespace + "." + name is the key it was
\* given.
C29_ParseRebuildsTheKey ==
    (fn = "parseCredentialKey" /\ validateCredentialKey(Args[1]).ok) =>
        /\ Ret.ok
        /\ <<"e", "t", "h", ".", "e", "c", "s", ".">> \o Ret.value.namespace \o <<".">> \o Ret.value.name = Args[1]

\* C30: when resolveCredential is called with throwOnError=true and
\* validateCredentialRequest fails, the promise rejects with the error that
\* validateCredentialRequest raised: the InvalidCredentialKeyError when both
\* the key and the identifier are invalid.
C30_ValidationErrorIsRethrown ==
    (mode = "single" /\ options.throwOnError /\ ValidationFails(1)) =>
        outcome = Rejected(validateCredentialRequest(calls[1].request.identifier,
                                                     calls[1].request.credentialKey).error)

====
